---- MODULE Spec2Model ----
(***************************************************************************)
(* A model of the marston compiler front end: the identifier table, the    *)
(* diagnostics bag, the recursive-descent parser, the tree indexer, the    *)
(* document rules, Context::process_file and the parallel loop of          *)
(* build_command.                                                          *)
(*                                                                         *)
(* Token indices stand for byte offsets: token i (0-based) has the span    *)
(* <<i, i+1>>.  String literals are sequences of one-character strings so  *)
(* that length, trimming and case folding are computed.                    *)
(***************************************************************************)
EXTENDS Integers, Sequences, FiniteSets, TLC

VARIABLES
    files,         \* build_command: the discovered files, file id -> [ext, tokens]
    pending,       \* files the parallel iterator has not handed to a worker yet
    pool,          \* the worker threads of the rayon pool
    wk,            \* worker -> its position in the closure / process_file and its locals
    ctx_lock,      \* holder of the Mutex<Context> (0: free)
    ctx_poisoned,  \* the Mutex<Context> was poisoned by a panic of its holder
    interner,      \* GLOBAL_TABLE: the interned texts, handle k at position k+1
    bag,           \* REPORTS_BAG
    log,           \* history: the operations process_file has executed, in order
    rendered,      \* history: what ReportsBag::print has rendered, and against which file
    written,       \* files whose HTML was written
    tpc,           \* ident-table client thread -> position in get_or_intern / resolve
    targ,          \* ident-table client thread -> argument of the call in progress
    table_lock,    \* holder of the Mutex<IdentTable> (0: free)
    returned,      \* history: <<text, handle>> pairs returned by get_or_intern
    resolved,      \* history: <<handle, text>> pairs returned by resolve
    fdoc,          \* find_in_parent: the document queried
    fpath,         \* find_in_parent: the path queried
    fresult,       \* find_in_parent: the positions returned (<<>> before the call)
    rsrc,          \* a rule run: the tokens of the source the rule is run on
    rdoc,          \* a rule run: the document parsed from the source
    rinfo,         \* a rule run: the Info collected from the document
    rule,          \* a rule run: the validation rule that is run
    rpc            \* a rule run: source -> parsed -> indexed -> validated

buildVars == <<files, pending, pool, wk, ctx_lock, ctx_poisoned, bag, log, rendered, written>>
tableVars == <<tpc, targ, table_lock, returned, resolved>>
findVars == <<fdoc, fpath, fresult>>
ruleVars == <<rsrc, rdoc, rinfo, rule, rpc>>
vars == <<buildVars, interner, tableVars, findVars, ruleVars>>

-----------------------------------------------------------------------------
(* Bounds *)

MaxRawLen == 3        \* raw token sequences of every length up to this one
NumWorkers == 2       \* worker threads of the parallel build
MaxFiles == 2         \* files of a parallel build
NumThreads == 2       \* threads using the identifier table
MaxCalls == 4         \* identifier-table calls made in one behaviour
MaxNodes == 4         \* nodes of a document queried by find_in_parent
MaxPath == 2          \* length of a find_in_parent path

-----------------------------------------------------------------------------
(* Sequence helpers *)

Range(s) == {s[i] : i \in DOMAIN s}

\* LET v == x IN F(v), with x evaluated once
Let(x, F(_)) == F(x)

RECURSIVE SeqsUpTo(_, _)
SeqsUpTo(S, n) ==
    IF n = 0 THEN {<<>>}
    ELSE LET shorter == SeqsUpTo(S, n - 1)
         IN shorter \cup {Append(s, x) : s \in {t \in shorter : Len(t) = n - 1}, x \in S}

IsPrefix(s, t) == Len(s) <= Len(t) /\ SubSeq(t, 1, Len(s)) = s

IndexOf(s, x) == IF \E i \in DOMAIN s : s[i] = x
                 THEN CHOOSE i \in DOMAIN s : s[i] = x /\ \A j \in 1..(i - 1) : s[j] # x
                 ELSE 0

-----------------------------------------------------------------------------
(* lexer.rs: tokens *)

Tok(kind) == [kind |-> kind, name |-> "", str |-> <<>>, num |-> 0]
Ident(name) == [kind |-> "Identifier", name |-> name, str |-> <<>>, num |-> 0]
StrTok(chars) == [kind |-> "String", name |-> "", str |-> chars, num |-> 0]
NumTok(n) == [kind |-> "Number", name |-> "", str |-> <<>>, num |-> n]
BoolTok(b) == [kind |-> "Bool", name |-> "", str |-> <<>>, num |-> IF b THEN 1 ELSE 0]

Punctuation == {"Dot", "ParenOpen", "ParenClose", "BraceOpen", "BraceClose",
                "BracketOpen", "BracketClose", "Equals", "Comma"}

-----------------------------------------------------------------------------
(* ast/ident_table.rs: the interner.  A handle is the position of its text  *)
(* in the table, counted from 0.                                            *)

NoName == -1

\* mutant: allocates a fresh handle without looking the text up
RodeoInternFresh(tab, text) ==
    [tab |-> Append(tab, text), key |-> Len(tab)]

\* mutant: a new text overwrites the last slot instead of taking a new one
RodeoInternOverwrite(tab, text) ==
    IF IndexOf(tab, text) # 0 THEN [tab |-> tab, key |-> IndexOf(tab, text) - 1]
    ELSE IF tab = <<>> THEN [tab |-> <<text>>, key |-> 0]
    ELSE [tab |-> [tab EXCEPT ![Len(tab)] = text], key |-> Len(tab) - 1]

\* IdentTable::intern -> ThreadedRodeo::get_or_intern
RodeoIntern(tab, text) ==
    IF IndexOf(tab, text) # 0
    THEN [tab |-> tab, key |-> IndexOf(tab, text) - 1]
    ELSE [tab |-> Append(tab, text), key |-> Len(tab)]

\* IdentTable::resolve -> ThreadedRodeo::resolve (panics on an unknown key)
RodeoResolve(tab, key) == tab[key + 1]

KnownKey(tab, key) == key >= 0 /\ key < Len(tab)

-----------------------------------------------------------------------------
(* reports.rs: the diagnostics bag *)

NoFile == 0
DefaultSpan == <<0, 0>>

BagNew(file, source) ==
    [reports |-> <<>>, file |-> file, source_content |-> source, has_errors |-> FALSE]

\* mutant: init keeps the error flag of the previous file
BagInitKeepFlag(b, file, source) ==
    [reports |-> <<>>, file |-> file, source_content |-> source, has_errors |-> b.has_errors]

BagInit(b, file, source) == BagNew(file, source)

BagAdd(b, report) == [b EXCEPT !.reports = Append(@, report)]

HasErrors(b) == b.has_errors

MarkErrors(b) == [b EXCEPT !.has_errors = TRUE]

ClearErrors(b) == [b EXCEPT !.reports = <<>>]

\* mutant: every report kind marks the bag
ReportMarksAnyKind(kind) == TRUE

\* report!: `if $kind == ReportKind::Error { ReportsBag::mark_errors(); }`
ReportMarks(kind) == kind = "Error"

\* report!: the report is built against ReportsBag::file()
ReportBuild(b, kind, message, labels) ==
    [kind |-> kind, message |-> message, file |-> b.file, labels |-> labels]

\* ReportsBag::add(report!(...)): the macro marks the bag, then add pushes the report
AddReport(b, kind, message, labels) ==
    BagAdd(IF ReportMarks(kind) THEN MarkErrors(b) ELSE b,
           ReportBuild(b, kind, message, labels))

\* error_report!: report! with kind: ReportKind::Error
AddErrorReport(b, message, labels) == AddReport(b, "Error", message, labels)

-----------------------------------------------------------------------------
(* ast/parser.rs: the parser.  A parser state p is                          *)
(*   [cur, panic, bag, tab]                                                 *)
(* cur is Parser::current, bag and tab are the two globals the parser       *)
(* writes, and panic records an index-out-of-bounds abort of                *)
(* `self.tokens[self.current]`; once set, nothing more is executed.         *)

TokSpan(i) == <<i, i + 1>>

IsAtEnd(toks, p) == p.cur >= Len(toks)

\* Parser::current, for a p that is not at the end
Current(toks, p) == toks[p.cur + 1]

Abort(p) == [p EXCEPT !.panic = TRUE]

Advance(toks, p) == IF ~IsAtEnd(toks, p) THEN [p EXCEPT !.cur = @ + 1] ELSE p

\* Parser::peek_ahead: an Option, as a sequence of length 0 or 1
PeekAhead(toks, p, offset) ==
    IF p.cur + offset < Len(toks) THEN <<toks[p.cur + offset + 1]>> ELSE <<>>

KindText(kind) ==
    CASE kind = "Dot" -> "." [] kind = "ParenOpen" -> "(" [] kind = "ParenClose" -> ")"
      [] kind = "BraceOpen" -> "{" [] kind = "BraceClose" -> "}"
      [] kind = "BracketOpen" -> "[" [] kind = "BracketClose" -> "]"
      [] kind = "Equals" -> "=" [] kind = "Comma" -> ","
      [] OTHER -> kind

\* Parser::error_at: one error report labelled at span
ErrorAt(p, message, span) ==
    [p EXCEPT !.bag = AddErrorReport(p.bag, message, <<[span |-> span, message |-> message]>>)]

\* Parser::error_at_current, for a p that is not at the end
ErrorAtCurrent(toks, p, message) == ErrorAt(p, message, TokSpan(p.cur))

ExpectedFound(toks, p, expected, message) ==
    <<"Expected", KindText(expected), "found", KindText(Current(toks, p).kind), message>>

\* Parser::consume_with_span -> [p, ok, at]; at is the index of the token consumed
ConsumeWithSpan(toks, p, kind, message, span) ==
    IF p.panic THEN [p |-> p, ok |-> FALSE, at |-> 0]
    ELSE IF IsAtEnd(toks, p) THEN [p |-> Abort(p), ok |-> FALSE, at |-> 0]
    ELSE IF Current(toks, p).kind = kind
         THEN [p |-> Advance(toks, p), ok |-> TRUE, at |-> p.cur]
         ELSE [p |-> ErrorAt(p, ExpectedFound(toks, p, kind, message), span),
               ok |-> FALSE, at |-> 0]

\* Parser::consume: the error is labelled at the current token
Consume(toks, p, kind, message) == ConsumeWithSpan(toks, p, kind, message, TokSpan(p.cur))

\* Parser::match_token -> [p, ok]
MatchToken(toks, p, kind) ==
    IF p.panic THEN [p |-> p, ok |-> FALSE]
    ELSE IF IsAtEnd(toks, p) THEN [p |-> Abort(p), ok |-> FALSE]
    ELSE IF Current(toks, p).kind = kind THEN [p |-> Advance(toks, p), ok |-> TRUE]
    ELSE [p |-> p, ok |-> FALSE]

\* Parser::consume_identifier -> [p, some, key]
ConsumeIdentifier(toks, p, message) ==
    IF p.panic THEN [p |-> p, some |-> FALSE, key |-> NoName]
    ELSE IF IsAtEnd(toks, p) THEN [p |-> Abort(p), some |-> FALSE, key |-> NoName]
    ELSE IF Current(toks, p).kind = "Identifier"
         THEN Let(RodeoIntern(p.tab, Current(toks, p).name), LAMBDA r :
                  [p |-> Advance(toks, [p EXCEPT !.tab = r.tab]), some |-> TRUE, key |-> r.key])
         ELSE [p |-> ErrorAtCurrent(toks, p,
                        <<"Expected identifier, found", KindText(Current(toks, p).kind), message>>),
               some |-> FALSE, key |-> NoName]

(* Values.  parse_value builds a value from the token alone and attaches no span *)
(* of its own: the span of a parsed value is the default one.                    *)
VString(chars) == [kind |-> "String", str |-> chars, num |-> 0, items |-> <<>>, span |-> DefaultSpan]
VNumber(n) == [kind |-> "Number", str |-> <<>>, num |-> n, items |-> <<>>, span |-> DefaultSpan]
VBoolean(n) == [kind |-> "Boolean", str |-> <<>>, num |-> n, items |-> <<>>, span |-> DefaultSpan]
VArray(items) == [kind |-> "Array", str |-> <<>>, num |-> 0, items |-> items, span |-> DefaultSpan]

\* Value::new_default
ValueNewDefault == VBoolean(1)

NoValue(p) == [p |-> p, some |-> FALSE, val |-> VBoolean(0)]

RECURSIVE ParseValue(_, _)
RECURSIVE ArrayLoop(_, _, _)

\* the `loop` of parse_value's array arm -> [p, vals]
ArrayLoop(toks, p, vals) ==
    Let(ParseValue(toks, p), LAMBDA r :
        IF ~r.some THEN [p |-> r.p, vals |-> vals]
        ELSE Let(MatchToken(toks, r.p, "Comma"), LAMBDA m :
                 IF m.ok THEN ArrayLoop(toks, m.p, Append(vals, r.val))
                 ELSE [p |-> m.p, vals |-> Append(vals, r.val)]))

\* parse_value, the BracketOpen arm, p1 being the state after `self.advance()`
ParseArray(toks, p1) ==
    IF IsAtEnd(toks, p1) THEN NoValue(Abort(p1))
    ELSE Let(IF Current(toks, p1).kind = "BracketClose"
             THEN [p |-> p1, vals |-> <<>>]
             ELSE ArrayLoop(toks, p1, <<>>), LAMBDA l :
         Let(Consume(toks, l.p, "BracketClose", "Expected closing bracket after array"),
             LAMBDA c :
                 IF c.ok THEN [p |-> c.p, some |-> TRUE, val |-> VArray(l.vals)]
                 ELSE NoValue(c.p)))

\* Parser::parse_value -> [p, some, val]
ParseValue(toks, p) ==
    IF p.panic THEN NoValue(p)
    ELSE IF IsAtEnd(toks, p) THEN NoValue(Abort(p))
    ELSE Let(Current(toks, p), LAMBDA t :
         CASE t.kind = "String" ->
                [p |-> Advance(toks, p), some |-> TRUE, val |-> VString(t.str)]
           [] t.kind = "Number" ->
                [p |-> Advance(toks, p), some |-> TRUE, val |-> VNumber(t.num)]
           [] t.kind = "Bool" ->
                [p |-> Advance(toks, p), some |-> TRUE, val |-> VBoolean(t.num)]
           [] t.kind = "BracketOpen" -> ParseArray(toks, Advance(toks, p))
           [] OTHER ->
                NoValue(Advance(toks, ErrorAtCurrent(toks, p,
                    <<"expected the value to be one of: string, boolean, number, array.">>))))

NoAttr(p) == [p |-> p, some |-> FALSE, key |-> NoName, val |-> VBoolean(0)]

\* Parser::parse_attr -> [p, some, key, val]
ParseAttr(toks, p) ==
    Let(Consume(toks, p, "Dot", "Attributes are required to start with a dot"), LAMBDA d :
    IF ~d.ok THEN NoAttr(d.p)
    ELSE Let(ConsumeIdentifier(toks, d.p, "Expected attribute name"), LAMBDA i :
    IF ~i.some THEN NoAttr(i.p)
    ELSE Let(Consume(toks, i.p, "Equals", "attribute name must be separated by an equals sign"),
             LAMBDA e :
    IF ~e.ok THEN NoAttr(e.p)
    ELSE Let(ParseValue(toks, e.p), LAMBDA v :
    IF ~v.some THEN NoAttr(v.p)
    ELSE [p |-> v.p, some |-> TRUE, key |-> i.key, val |-> v.val]))))

\* mutant: a repeated key is appended instead of replacing the earlier value
AttrsAppend(attrs, key, val) == Append(attrs, [key |-> key, value |-> val])

\* FxHashMap::insert: attrs.insert(attr_name, attr_value)
AttrsInsert(attrs, key, val) ==
    IF \E i \in DOMAIN attrs : attrs[i].key = key
    THEN [i \in DOMAIN attrs |->
            IF attrs[i].key = key THEN [key |-> key, value |-> val] ELSE attrs[i]]
    ELSE Append(attrs, [key |-> key, value |-> val])

BlockNode(block) == [type |-> "Block", block |-> block, text |-> <<>>]
TextNode(chars) == [type |-> "Text", block |-> <<>>, text |-> chars]

RECURSIVE ParseBlock(_, _)
RECURSIVE AttrLoop(_, _, _)
RECURSIVE ChildLoop(_, _, _, _)

\* `if self.current().kind != TokenKind::ParenClose { self.consume_with_span(Comma, ..) }`
AttrSeparator(toks, q) ==
    IF q.panic THEN q
    ELSE IF IsAtEnd(toks, q) THEN Abort(q)
    ELSE IF Current(toks, q).kind # "ParenClose"
         THEN ConsumeWithSpan(toks, q, "Comma", "Attributes must be separated by commas",
                              IF q.cur > 0 THEN <<q.cur, q.cur>> ELSE TokSpan(q.cur)).p
         ELSE q

\* the `while` of the parenthesised attribute list -> [p, attrs]
AttrLoop(toks, p, attrs) ==
    IF p.panic THEN [p |-> p, attrs |-> attrs]
    ELSE IF IsAtEnd(toks, p) THEN [p |-> Abort(p), attrs |-> attrs]
    ELSE IF Current(toks, p).kind = "ParenClose" THEN [p |-> p, attrs |-> attrs]
    ELSE Let(ParseAttr(toks, p), LAMBDA a :
         Let(AttrSeparator(toks, a.p), LAMBDA s :
             IF a.some THEN AttrLoop(toks, s, AttrsInsert(attrs, a.key, a.val))
             ELSE [p |-> s, attrs |-> attrs]))

\* `if self.check(&TokenKind::ParenOpen) { ... }` -> [p, attrs]
AttrSection(toks, p, attrs) ==
    IF p.panic THEN [p |-> p, attrs |-> attrs]
    ELSE IF IsAtEnd(toks, p) THEN [p |-> Abort(p), attrs |-> attrs]
    ELSE IF Current(toks, p).kind # "ParenOpen" THEN [p |-> p, attrs |-> attrs]
    ELSE Let(AttrLoop(toks, Advance(toks, p), attrs), LAMBDA l :
             [p |-> Consume(toks, l.p, "ParenClose",
                        "Block's inner attribute list is missing a closing parenthesis").p,
              attrs |-> l.attrs])

\* the child loop, current token a Dot with a token two places ahead
ChildAtDot(toks, p, attrs, children, ahead) ==
    IF ahead.kind = "Equals"
    THEN Let(ParseAttr(toks, p), LAMBDA a :
             ChildLoop(toks, MatchToken(toks, a.p, "Comma").p,
                       IF a.some THEN AttrsInsert(attrs, a.key, a.val) ELSE attrs,
                       children))
    ELSE Let(ParseBlock(toks, p), LAMBDA b :
             ChildLoop(toks, MatchToken(toks, b.p, "Comma").p, attrs,
                       Append(children, BlockNode(b.block))))

\* the `while` of the brace body -> [p, attrs, children]
ChildLoop(toks, p, attrs, children) ==
    IF p.panic THEN [p |-> p, attrs |-> attrs, children |-> children]
    ELSE IF IsAtEnd(toks, p) THEN [p |-> Abort(p), attrs |-> attrs, children |-> children]
    ELSE IF Current(toks, p).kind = "BraceClose"
         THEN [p |-> p, attrs |-> attrs, children |-> children]
    ELSE IF Current(toks, p).kind = "Dot"
         THEN IF PeekAhead(toks, p, 2) = <<>>
              THEN [p |-> ErrorAtCurrent(toks, p, <<"Unexpected end of input after '.'">>),
                    attrs |-> attrs, children |-> children]
              ELSE ChildAtDot(toks, p, attrs, children, PeekAhead(toks, p, 2)[1])
    ELSE IF Current(toks, p).kind = "String"
         THEN ChildLoop(toks, MatchToken(toks, Advance(toks, p), "Comma").p, attrs,
                        Append(children, TextNode(Current(toks, p).str)))
    ELSE ChildLoop(toks,
                   Advance(toks, ErrorAtCurrent(toks, p,
                       <<"Invalid block children. Expected a block, an attribute, or content">>)),
                   attrs, children)

\* `if self.check(&TokenKind::BraceOpen) { ... }` -> [p, attrs, children]
BodySection(toks, p, attrs) ==
    IF p.panic THEN [p |-> p, attrs |-> attrs, children |-> <<>>]
    ELSE IF IsAtEnd(toks, p) THEN [p |-> Abort(p), attrs |-> attrs, children |-> <<>>]
    ELSE IF Current(toks, p).kind # "BraceOpen"
         THEN [p |-> p, attrs |-> attrs, children |-> <<>>]
    ELSE Let(ChildLoop(toks, Advance(toks, p), attrs, <<>>), LAMBDA l :
             [p |-> Consume(toks, l.p, "BraceClose", "Blocks should end in a brace").p,
              attrs |-> l.attrs, children |-> l.children])

\* Block::new and the assignments at the end of parse_block
MakeBlock(d, i, b) ==
    [name |-> IF i.some THEN i.key ELSE NoName,
     attributes |-> b.attrs,
     children |-> b.children,
     span |-> IF d.ok /\ b.p.cur > 0 THEN <<d.at, b.p.cur>> ELSE DefaultSpan]

\* Parser::parse_block -> [p, block]
ParseBlock(toks, p) ==
    Let(Consume(toks, p, "Dot", "Blocks are required to start with a dot"), LAMBDA d :
    Let(ConsumeIdentifier(toks, d.p, "Expected block name"), LAMBDA i :
    Let(AttrSection(toks, i.p, <<>>), LAMBDA a :
    Let(BodySection(toks, a.p, a.attrs), LAMBDA b :
        [p |-> b.p, block |-> MakeBlock(d, i, b)]))))

-----------------------------------------------------------------------------
(* Strings: sequences of one-character strings *)

UpperCase == <<"A", "B", "C", "D", "E", "F", "G", "H", "I", "J", "K", "L", "M",
               "N", "O", "P", "Q", "R", "S", "T", "U", "V", "W", "X", "Y", "Z">>
LowerCase == <<"a", "b", "c", "d", "e", "f", "g", "h", "i", "j", "k", "l", "m",
               "n", "o", "p", "q", "r", "s", "t", "u", "v", "w", "x", "y", "z">>
Digits == {"0", "1", "2", "3", "4", "5", "6", "7", "8", "9"}
WhiteSpace == {" "}

\* char::is_alphanumeric
IsAlphanumeric(c) == c \in Range(UpperCase) \cup Range(LowerCase) \cup Digits

\* str::to_lowercase
ToLowercase(chars) ==
    [i \in DOMAIN chars |->
        IF IndexOf(UpperCase, chars[i]) # 0 THEN LowerCase[IndexOf(UpperCase, chars[i])]
        ELSE chars[i]]

\* str::trim
RECURSIVE TrimStart(_)
TrimStart(chars) ==
    IF chars # <<>> /\ Head(chars) \in WhiteSpace THEN TrimStart(Tail(chars)) ELSE chars
RECURSIVE TrimEnd(_)
TrimEnd(chars) ==
    IF chars # <<>> /\ chars[Len(chars)] \in WhiteSpace
    THEN TrimEnd(SubSeq(chars, 1, Len(chars) - 1)) ELSE chars
Trim(chars) == TrimEnd(TrimStart(chars))

(* String literals *)
SDocumentation == <<"D", "o", "c", "u", "m", "e", "n", "t", "a", "t", "i", "o", "n", " ", "H", "o", "m", "e", " ", "P", "a", "g", "e">>
SHome == <<"H", "o", "m", "e">>
SEn == <<"e", "n">>
SUtf8 == <<"u", "t", "f", "-", "8">>
SPreload == <<"p", "r", "e", "l", "o", "a", "d">>
SText == <<"h", "i">>
SStylesheet == <<"s", "t", "y", "l", "e", "s", "h", "e", "e", "t">>
SExpect == <<"e", "x", "p", "e", "c", "t">>
SRender == <<"r", "e", "n", "d", "e", "r">>
SJsFile == <<"a", ".", "j", "s">>
SHttpJs == <<"h", "t", "t", "p", ":", "/", "/", "a", ".", "j", "s">>
SHttpsJs == <<"h", "t", "t", "p", "s", ":", "/", "/", "a", ".", "j", "s">>
SModule == <<"m", "o", "d", "u", "l", "e">>
SFont == <<"f", "o", "n", "t">>

-----------------------------------------------------------------------------
(* info.rs: the tree indexer *)

NoParent == -1

InfoNew == [blocks |-> <<>>, name_index |-> <<>>, id_counter |-> 0,
            current_parent |-> NoParent, current_depth |-> 0, panic |-> FALSE]

\* mutant: no block is ever found by its name
HasBlockNever(info, name) == FALSE

\* Info::has_block
HasBlock(info, name) == name \in DOMAIN info.name_index

\* name_index.entry(key).or_default().push(id)
NameIndexPush(index, key, id) ==
    [k \in DOMAIN index \cup {key} |->
        IF k \in DOMAIN index
        THEN (IF k = key THEN Append(index[k], id) ELSE index[k])
        ELSE <<id>>]

\* enter_block: `parent.children.push(id)` on the BlockInfo of current_parent
LinkChild(info, id) ==
    IF info.current_parent # NoParent
    THEN [info.blocks EXCEPT ![info.current_parent + 1].children = Append(@, id)]
    ELSE info.blocks

\* Info::enter_block (with Info::next_id) -> [info, old_parent]
EnterBlock(info, block) ==
    IF block.name = NoName
    THEN [info |-> [info EXCEPT !.panic = TRUE], old_parent |-> NoParent]
    ELSE [info |-> [blocks |-> Append(LinkChild(info, info.id_counter),
                                      [id |-> info.id_counter, name |-> block.name,
                                       span |-> block.span, depth |-> info.current_depth,
                                       parent |-> info.current_parent, children |-> <<>>]),
                    name_index |-> NameIndexPush(info.name_index, block.name, info.id_counter),
                    id_counter |-> info.id_counter + 1,
                    current_parent |-> info.id_counter,
                    current_depth |-> info.current_depth + 1,
                    panic |-> FALSE],
          old_parent |-> IF info.current_parent # NoParent THEN info.current_parent
                         ELSE info.id_counter]

\* Info::exit_block
ExitBlock(info, old_parent) ==
    [info EXCEPT !.current_depth = @ - 1, !.current_parent = old_parent]

RECURSIVE CollectBlock(_, _)
RECURSIVE CollectNodes(_, _, _)

\* `for child in &mut self.children { child.collect_info(info); }`
CollectNodes(info, nodes, i) ==
    IF i > Len(nodes) \/ info.panic THEN info
    ELSE CollectNodes(IF nodes[i].type = "Block" THEN CollectBlock(info, nodes[i].block)
                      ELSE info,
                      nodes, i + 1)

\* impl InfoWalker for Block
CollectBlock(info, block) ==
    Let(EnterBlock(info, block), LAMBDA e :
        IF e.info.panic THEN e.info
        ELSE Let(CollectNodes(e.info, block.children, 1), LAMBDA inner :
                 IF inner.panic THEN inner ELSE ExitBlock(inner, e.old_parent)))

RECURSIVE CollectBlocks(_, _, _)
CollectBlocks(info, blocks, i) ==
    IF i > Len(blocks) \/ info.panic THEN info
    ELSE CollectBlocks(CollectBlock(info, blocks[i]), blocks, i + 1)

\* impl InfoWalker for MarstonDocument
CollectInfo(doc) == CollectBlocks(InfoNew, doc, 1)

-----------------------------------------------------------------------------
(* ast/mod.rs: lookups on the tree *)

\* MarstonDocument::find_block_by_name: index of the first top-level block, or 0
FindBlockByName(doc, name) ==
    IF \E i \in DOMAIN doc : doc[i].name = name
    THEN CHOOSE i \in DOMAIN doc : doc[i].name = name /\ \A j \in 1..(i - 1) : doc[j].name # name
    ELSE 0

\* mutant: no attribute is ever found
GetAttributeNone(block, key) == 0

\* Block::get_attribute: index of the first attribute with the key, or 0
GetAttribute(block, key) ==
    IF \E i \in DOMAIN block.attributes : block.attributes[i].key = key
    THEN CHOOSE i \in DOMAIN block.attributes :
            /\ block.attributes[i].key = key
            /\ \A j \in 1..(i - 1) : block.attributes[j].key # key
    ELSE 0

\* Block::find_child_block: whether a direct child block has the name
HasChildBlock(block, name) ==
    \E i \in DOMAIN block.children :
        block.children[i].type = "Block" /\ block.children[i].block.name = name

-----------------------------------------------------------------------------
(* validator/rules/document.rs and block.rs.  A validation state v is       *)
(*   [bag, tab, panic]                                                      *)

VAdd(v, kind, message, labels) == [v EXCEPT !.bag = AddReport(v.bag, kind, message, labels)]

Label(span, message) == [span |-> span, message |-> message]

\* get_or_intern(name) during validation -> [v, key]
VIntern(v, name) ==
    Let(RodeoIntern(v.tab, name), LAMBDA r : [v |-> [v EXCEPT !.tab = r.tab], key |-> r.key])

RequiredTags == <<"head", "body">>

RECURSIVE MissingTags(_, _, _, _)
\* the `for tag in required_tags` loop -> [v, missing]
MissingTags(v, info, i, missing) ==
    IF i > Len(RequiredTags) THEN [v |-> v, missing |-> missing]
    ELSE Let(VIntern(v, RequiredTags[i]), LAMBDA k :
             MissingTags(k.v, info, i + 1,
                         IF ~HasBlock(info, k.key) THEN Append(missing, RequiredTags[i])
                         ELSE missing))

\* ensure_required_tags: `if !missing_tags.is_empty() { ... }`
ReportMissing(m) ==
    IF m.missing # <<>>
    THEN VAdd(m.v, "Error", <<"Missing required tags:">> \o m.missing,
              <<Label(DefaultSpan, "These tags are required for a valid Marston document")>>)
    ELSE m.v

\* ensure_required_tags: `if head.get_attribute(get_or_intern("title")).is_none() { ... }`
ReportNoTitle(v, head, title) ==
    IF GetAttribute(head, title) = 0
    THEN VAdd(v, "Error", <<"Missing 'title' attribute in 'head'">>,
              <<Label(head.span, "The 'title' block is required within the 'head' tag")>>)
    ELSE v

\* ensure_required_tags: `if let Some(title) = head.find_child_block(...) { ... }`
ReportTitleBlock(v, head, title) ==
    IF HasChildBlock(head, title)
    THEN VAdd(v, "Error", <<"Title should be specified as an attribute, not a block">>,
              <<Label(DefaultSpan, "Title block found, but it should be an attribute")>>)
    ELSE v

\* ensure_required_tags: the body of `if !missing_tags.contains(&"head")`
CheckHead(v, doc) ==
    Let(VIntern(v, "head"), LAMBDA h :
        IF FindBlockByName(doc, h.key) = 0 THEN [h.v EXCEPT !.panic = TRUE]
        ELSE Let(VIntern(h.v, "title"), LAMBDA t :
                 ReportTitleBlock(ReportNoTitle(t.v, doc[FindBlockByName(doc, h.key)], t.key),
                                  doc[FindBlockByName(doc, h.key)], t.key)))

\* ensure_required_tags
EnsureRequiredTags(v, doc, info) ==
    Let(MissingTags(v, info, 1, <<>>), LAMBDA m :
        IF "head" \in Range(m.missing) THEN ReportMissing(m)
        ELSE CheckHead(ReportMissing(m), doc))

\* the span under which a name was first seen
FirstSpan(seen, name) == (CHOOSE e \in seen : e.name = name).span

\* mutant: only the tags a document may hold once are looked up
SeenSingleton(seen, name) == name \in {"head", "body"} /\ \E e \in seen : e.name = name

\* `if let Some(existing_span) = seen.get(name)`
Seen(seen, name) == \E e \in seen : e.name = name

RECURSIVE DuplicateNames(_, _, _, _)
\* the `for (name, span) in &all_names` loop and the reports of its duplicates
DuplicateNames(v, blocks, i, seen) ==
    IF i > Len(blocks) THEN v
    ELSE IF Seen(seen, RodeoResolve(v.tab, blocks[i].name))
         THEN DuplicateNames(
                  VAdd(v, "Error",
                       <<"Duplicate block name", RodeoResolve(v.tab, blocks[i].name), "found">>,
                       <<Label(blocks[i].span, "redefined here"),
                         Label(FirstSpan(seen, RodeoResolve(v.tab, blocks[i].name)),
                               "first defined here")>>),
                  blocks, i + 1, seen)
         ELSE DuplicateNames(v, blocks, i + 1,
                             seen \cup {[name |-> RodeoResolve(v.tab, blocks[i].name),
                                         span |-> blocks[i].span]})

\* html/tags.rs is_unique_tag: the names of the `unique` set.  document.rs imports it
\* and validate_block_name_uniqueness does not call it.
IsUniqueTag(tag) == tag \in {"html", "head", "body", "title"}

\* validate_block_name_uniqueness
ValidateBlockNameUniqueness(v, doc, info) == DuplicateNames(v, info.blocks, 1, {})

GenericTitles == {
    <<"h", "o", "m", "e">>,
    <<"p", "a", "g", "e">>,
    <<"i", "n", "d", "e", "x">>,
    <<"u", "n", "t", "i", "t", "l", "e", "d">>,
    <<"d", "o", "c", "u", "m", "e", "n", "t">>,
    <<"w", "e", "l", "c", "o", "m", "e">>,
    <<"d", "e", "f", "a", "u", "l", "t", " ", "t", "i", "t", "l", "e">>,
    <<"n", "e", "w", " ", "p", "a", "g", "e">>,
    <<"t", "i", "t", "l", "e">>}

TitleMinLen == 10
TitleMaxLen == 100

\* validate_title: the length warnings
WarnLength(v, trimmed, span) ==
    IF Len(trimmed) < TitleMinLen
    THEN VAdd(v, "Warning", <<"Title is very short">>,
              <<Label(span, "Consider making the title more descriptive")>>)
    ELSE IF Len(trimmed) > TitleMaxLen
    THEN VAdd(v, "Warning", <<"Title length exceeds 100 characters">>,
              <<Label(span, "Consider shortening the title")>>)
    ELSE v

\* validate_title: `if generic_titles.iter().any(|t| lower == *t) { ... }`
WarnGeneric(v, trimmed, span) ==
    IF ToLowercase(trimmed) \in GenericTitles
    THEN VAdd(v, "Warning", <<"Generic or uninformative title">>,
              <<Label(span, "Try using a more specific and descriptive title")>>)
    ELSE v

\* validate_title: `if trimmed.chars().all(|c| !c.is_alphanumeric()) { ... }`
WarnSymbols(v, trimmed, span) ==
    IF \A i \in DOMAIN trimmed : ~IsAlphanumeric(trimmed[i])
    THEN VAdd(v, "Warning", <<"Title is made up entirely of non-alphanumeric characters">>,
              <<Label(span, "Use meaningful words in the title")>>)
    ELSE v

\* validate_title: the checks on the title attribute once it is found
CheckTitle(v, value, span) ==
    IF value.kind # "String"
    THEN VAdd(v, "Error", <<"Title must be a string">>,
              <<Label(span, "The 'title' attribute should be a string value")>>)
    ELSE IF Trim(value.str) = <<>>
    THEN VAdd(v, "Error", <<"Title cannot be empty">>,
              <<Label(span, "The 'title' attribute must have a non-empty value")>>)
    ELSE WarnSymbols(WarnGeneric(WarnLength(v, Trim(value.str), span),
                                 Trim(value.str), span),
                     Trim(value.str), span)

\* the value of the first attribute of block with the key
AttributeValue(block, key) == block.attributes[GetAttribute(block, key)].value

\* validate_title (rules/document.rs)
ValidateTitle(v, doc, info) ==
    Let(VIntern(v, "head"), LAMBDA h :
        IF FindBlockByName(doc, h.key) = 0 THEN h.v
        ELSE Let(VIntern(h.v, "title"), LAMBDA t :
                 IF GetAttribute(doc[FindBlockByName(doc, h.key)], t.key) = 0 THEN t.v
                 ELSE CheckTitle(t.v,
                                 AttributeValue(doc[FindBlockByName(doc, h.key)], t.key),
                                 doc[FindBlockByName(doc, h.key)].span)))

\* the number of attributes of block with the key
KeyCount(block, key) ==
    Cardinality({j \in DOMAIN block.attributes : block.attributes[j].key = key})

RECURSIVE DuplicateAttrs(_, _, _, _)
\* validate_attributes_uniqueness: one report per key that occurs more than once
DuplicateAttrs(v, block, i, done) ==
    IF i > Len(block.attributes) THEN v
    ELSE IF block.attributes[i].key \notin done /\ KeyCount(block, block.attributes[i].key) > 1
         THEN DuplicateAttrs(
                  VAdd(v, "Error",
                       <<"Duplicate attribute", RodeoResolve(v.tab, block.attributes[i].key), "found">>,
                       <<Label(block.span, "first defined here")>>),
                  block, i + 1, done \cup {block.attributes[i].key})
         ELSE DuplicateAttrs(v, block, i + 1, done \cup {block.attributes[i].key})

\* impl Validate for Block
ValidateBlock(v, block) == DuplicateAttrs(v, block, 1, {})

RECURSIVE ValidateBlocks(_, _, _)
\* `for block in &self.blocks { block.validate(info); }`
ValidateBlocks(v, doc, i) ==
    IF i > Len(doc) THEN v ELSE ValidateBlocks(ValidateBlock(v, doc[i]), doc, i + 1)

\* Validate::call_rules: `for rule in Self::rules() { rule(self, info); }`
CallRules(v, doc, info) ==
    Let(EnsureRequiredTags(v, doc, info), LAMBDA r1 :
        IF r1.panic THEN r1
        ELSE ValidateTitle(ValidateBlockNameUniqueness(r1, doc, info), doc, info))

\* impl Validate for MarstonDocument: call_rules, then every top-level block
ValidateDocument(v, doc, info) ==
    Let(CallRules(v, doc, info), LAMBDA r :
        IF r.panic THEN r ELSE ValidateBlocks(r, doc, 1))

-----------------------------------------------------------------------------
(* ast/mod.rs: MarstonDocument::find_in_parent.  A block of the document is   *)
(* identified by its position: <<i>> is the i-th top-level block and          *)
(* Append(pos, j) the j-th child node of the block at pos.                    *)

RECURSIVE NodeAt(_, _)
\* the j-th child node reached from a list of nodes along pos
NodeAt(nodes, pos) ==
    IF Len(pos) = 1 THEN nodes[pos[1]]
    ELSE NodeAt(nodes[pos[1]].block.children, Tail(pos))

\* the block at a position of the document
BlockAt(doc, pos) ==
    IF Len(pos) = 1 THEN doc[pos[1]] ELSE NodeAt(doc[pos[1]].children, Tail(pos)).block

\* `if let Some(ref interned) = block.name { if interned.key == name { ... } }`
NameIs(block, name) == block.name # NoName /\ block.name = name

\* the first loop of find_in_parent: the top-level blocks named names[0], in order
RootMatches(doc, name) ==
    SelectSeq([i \in 1..Len(doc) |-> <<i>>], LAMBDA pos : NameIs(doc[pos[1]], name))

RECURSIVE MatchingDescendants(_, _, _, _)
\* the blocks with the name anywhere below the block at pos, children from i on
MatchingDescendants(doc, pos, name, i) ==
    IF i > Len(BlockAt(doc, pos).children) THEN <<>>
    ELSE IF BlockAt(doc, pos).children[i].type # "Block"
         THEN MatchingDescendants(doc, pos, name, i + 1)
    ELSE (IF NameIs(BlockAt(doc, pos).children[i].block, name) THEN <<Append(pos, i)>> ELSE <<>>)
         \o MatchingDescendants(doc, Append(pos, i), name, 1)
         \o MatchingDescendants(doc, pos, name, i + 1)

\* mutant: the child scan descends below the direct children
DescendantsOf(doc, pos, name) == MatchingDescendants(doc, pos, name, 1)

\* `for child in &block.children { if let Node::Block(child_block) = child { ... } }`
MatchingChildren(doc, pos, name) ==
    SelectSeq([i \in 1..Len(BlockAt(doc, pos).children) |-> Append(pos, i)],
              LAMBDA q : /\ NodeAt(doc[q[1]].children, Tail(q)).type = "Block"
                         /\ NameIs(BlockAt(doc, q), name))

RECURSIVE NextBlocks(_, _, _, _)
\* `for block in current_blocks { ... next_blocks.push(child_block) ... }`
NextBlocks(doc, current, name, i) ==
    IF i > Len(current) THEN <<>>
    ELSE MatchingChildren(doc, current[i], name) \o NextBlocks(doc, current, name, i + 1)

RECURSIVE FindLoop(_, _, _, _)
\* `for name in names.iter().skip(1) { ...; current_blocks = next_blocks; }`
FindLoop(doc, current, names, i) ==
    IF i > Len(names) THEN current
    ELSE FindLoop(doc, NextBlocks(doc, current, names[i], 1), names, i + 1)

\* MarstonDocument::find_in_parent
FindInParent(doc, names) ==
    IF names = <<>> THEN <<>>
    ELSE FindLoop(doc, RootMatches(doc, names[1]), names, 2)

-----------------------------------------------------------------------------
(* validator/mod.rs and validator/conditions.rs: GenericValidator.  The       *)
(* builder calls produce the record g; a type check or a value check is a     *)
(* record [check, n, values, inner] naming the closure and what it captured.  *)

Check(name) == [check |-> name, n |-> 0, values |-> {}, inner |-> "None"]

\* GenericValidator::new
GenericValidatorNew(name) ==
    [name |-> name, target_type |-> "Either", parent |-> [some |-> FALSE, names |-> <<>>],
     required |-> FALSE, type_checks |-> <<>>, value_checks |-> <<>>, no_children |-> FALSE,
     require_on_of_attrs |-> <<>>, disallowed |-> FALSE, required_condition |-> "None",
     valid_if |-> "None"]

AsAttribute(g) == [g EXCEPT !.target_type = "Attribute"]
AsBlock(g) == [g EXCEPT !.target_type = "Block"]
InParent(g, parent_names) == [g EXCEPT !.parent = [some |-> TRUE, names |-> parent_names]]
Required(g) == [g EXCEPT !.required = TRUE]
Disallowed(g) == [g EXCEPT !.disallowed = TRUE]
BlockNoChildren(g) == [g EXCEPT !.no_children = TRUE]
RequireOneOfAttrs(g, attrs) == [g EXCEPT !.require_on_of_attrs = attrs]

\* self.type_checks.push(..)
PushTypeCheck(g, c) == [g EXCEPT !.type_checks = Append(@, c)]
MustBeString(g) == PushTypeCheck(g, Check("must_be_string"))
MustBeNumber(g) == PushTypeCheck(g, Check("must_be_number"))
MustBeBoolean(g) == PushTypeCheck(g, Check("must_be_boolean"))
MustBeArray(g, inner_ty) == PushTypeCheck(g, [Check("must_be_array") EXCEPT !.inner = inner_ty])

\* GenericValidator::check_value
CheckValue(g, c) == [g EXCEPT !.value_checks = Append(@, c)]
StringNotEmpty(g) == CheckValue(g, Check("string_not_empty"))
ArrayNotEmpty(g) == CheckValue(g, Check("array_not_empty"))
StringMinLength(g, min) == CheckValue(g, [Check("string_min_length") EXCEPT !.n = min])
StringMaxLength(g, max) == CheckValue(g, [Check("string_max_length") EXCEPT !.n = max])
StringNotGeneric(g, generic_values) ==
    CheckValue(g, [Check("string_not_generic") EXCEPT !.values = generic_values])
StringValidLanguageCode(g) == CheckValue(g, Check("string_valid_language_code"))
StringAllowedValues(g, allowed) ==
    CheckValue(g, [Check("string_allowed_values") EXCEPT !.values = allowed])
NumberMin(g, min) == CheckValue(g, [Check("number_min") EXCEPT !.n = min])
NumberPositive(g) == NumberMin(g, 0)

\* string_valid_url(None): no protocol is disallowed and a path is not accepted
StringValidUrl(g) == CheckValue(g, Check("string_valid_url"))
StringFileExtension(g, extension) ==
    CheckValue(g, [Check("string_file_extension") EXCEPT !.values = {extension}])
StringPreferHttps(g) == CheckValue(g, Check("string_prefer_https"))

\* GenericValidator::required_if
RequiredIf(g, condition) == [g EXCEPT !.required_condition = condition]

\* the value of the first attribute with the key, if there is one
FoundAttribute(block, key) ==
    IF GetAttribute(block, key) = 0 THEN [some |-> FALSE, value |-> VBoolean(0)]
    ELSE [some |-> TRUE, value |-> block.attributes[GetAttribute(block, key)].value]

\* the AttributeEquals predicate of the `as` rule: rel is the string "preload"
RelIsPreload(rel) == rel.some /\ rel.value.kind = "String" /\ rel.value.str = SPreload

\* GenericValidator::is_required, rel being the key of "rel"
IsRequired(g, block, rel) ==
    IF g.required_condition = "RelIsPreload" THEN RelIsPreload(FoundAttribute(block, rel))
    ELSE FALSE

\* GenericValidator::valid_if
ValidIf(g, condition) == [g EXCEPT !.valid_if = condition]

\* the AttributeEquals predicate of the `blocking` rule of validate_link
RelAllowsBlocking(rel) ==
    rel.some /\ rel.value.kind = "String" /\ rel.value.str \in {SExpect, SStylesheet}

\* Condition::evaluate of an AttributeEquals on a block: the result of the predicate,
\* rel being the key of "rel"
Evaluate(condition, block, rel) ==
    CASE condition = "RelIsPreload" -> RelIsPreload(FoundAttribute(block, rel))
      [] condition = "RelAllowsBlocking" -> RelAllowsBlocking(FoundAttribute(block, rel))
      [] OTHER -> FALSE

\* the ValueKind a type check asks for
Expected(c) ==
    CASE c.check = "must_be_string" -> "String"
      [] c.check = "must_be_number" -> "Number"
      [] c.check = "must_be_boolean" -> "Boolean"
      [] c.check = "must_be_array" -> "Array"

\* the report of a failed type check
TypeError(v, c, span) ==
    CASE c.check = "must_be_string" ->
            VAdd(v, "Error", <<"Value must be a string">>,
                 <<Label(span, "Expected a string value here")>>)
      [] c.check = "must_be_number" ->
            VAdd(v, "Error", <<"Value must be a number">>,
                 <<Label(span, "Expected a numeric value here")>>)
      [] c.check = "must_be_boolean" ->
            VAdd(v, "Error", <<"Value must be a boolean">>,
                 <<Label(span, "Expected true or false here")>>)
      [] c.check = "must_be_array" ->
            VAdd(v, "Error", <<"Value must be an array">>,
                 <<Label(span, "Expected an array value here")>>)

\* one closure of type_checks applied to the value -> [v, ok]
TypeCheck(v, c, value, span) ==
    IF value.kind # Expected(c) THEN [v |-> TypeError(v, c, span), ok |-> FALSE]
    ELSE IF /\ c.check = "must_be_array"
            /\ c.inner # "None"
            /\ \E i \in DOMAIN value.items : value.items[i].kind # c.inner
         THEN [v |-> VAdd(v, "Error", <<"Array item must be of type", c.inner>>,
                          <<Label(span, "Expected an array of specific type")>>),
               ok |-> FALSE]
         ELSE [v |-> v, ok |-> TRUE]

IsAlphabetic(c) == c \in Range(UpperCase) \cup Range(LowerCase)

\* is_valid_language_pattern: ^[a-zA-Z]{2,3}(-[a-zA-Z0-9]{2,3})?$
IsValidLanguagePattern(code) ==
    \E k \in {2, 3} :
        /\ Len(code) >= k
        /\ \A i \in 1..k : IsAlphabetic(code[i])
        /\ \/ Len(code) = k
           \/ /\ Len(code) \in {k + 3, k + 4}
              /\ code[k + 1] = "-"
              /\ \A i \in (k + 2)..Len(code) : IsAlphanumeric(code[i])

RECURSIVE Subtags(_, _)
\* the subtags of a language identifier, split at '-' and '_'
Subtags(chars, cur) ==
    IF chars = <<>> THEN <<cur>>
    ELSE IF Head(chars) \in {"-", "_"} THEN <<cur>> \o Subtags(Tail(chars), <<>>)
    ELSE Subtags(Tail(chars), Append(cur, Head(chars)))

IsScriptSubtag(t) == Len(t) = 4 /\ \A i \in DOMAIN t : IsAlphabetic(t[i])
IsRegionSubtag(t) ==
    \/ Len(t) = 2 /\ \A i \in DOMAIN t : IsAlphabetic(t[i])
    \/ Len(t) = 3 /\ \A i \in DOMAIN t : t[i] \in Digits
IsVariantSubtag(t) ==
    /\ \A i \in DOMAIN t : IsAlphanumeric(t[i])
    /\ \/ Len(t) \in 5..8
       \/ Len(t) = 4 /\ t[1] \in Digits

RECURSIVE SubtagsFollow(_, _, _)
\* the subtags after the language: an optional script, an optional region, variants
SubtagsFollow(ts, i, stage) ==
    IF i > Len(ts) THEN TRUE
    ELSE IF stage = "script" /\ IsScriptSubtag(ts[i]) THEN SubtagsFollow(ts, i + 1, "region")
    ELSE IF stage \in {"script", "region"} /\ IsRegionSubtag(ts[i])
         THEN SubtagsFollow(ts, i + 1, "variant")
    ELSE IsVariantSubtag(ts[i]) /\ SubtagsFollow(ts, i + 1, "variant")

\* `trimmed.parse::<LanguageIdentifier>()` is Ok
ParsesAsLanguageIdentifier(code) ==
    Let(Subtags(code, <<>>), LAMBDA ts :
        /\ Len(ts[1]) \in {2, 3, 5, 6, 7, 8}
        /\ \A i \in DOMAIN ts[1] : IsAlphabetic(ts[1][i])
        /\ SubtagsFollow(ts, 2, "script"))

IsSuffix(s, t) == Len(s) <= Len(t) /\ SubSeq(t, Len(t) - Len(s) + 1, Len(t)) = s

\* the schemes the URL standard calls special and that need a host
HostSchemes == {<<"h", "t", "t", "p">>, <<"h", "t", "t", "p", "s">>, <<"w", "s">>,
                <<"w", "s", "s">>, <<"f", "t", "p">>}

IsSchemeChar(c) == IsAlphanumeric(c) \/ c \in {"+", "-", "."}

RECURSIVE AfterSlashes(_)
\* what follows the slashes that follow the scheme of a URL with a host
AfterSlashes(chars) ==
    IF chars # <<>> /\ Head(chars) \in {"/", "\\"} THEN AfterSlashes(Tail(chars)) ELSE chars

\* `Url::parse(trimmed)` is Ok, for a text without user name, port and escapes: the text
\* begins with a scheme and a colon (without them the parser fails with
\* RelativeUrlWithoutBase), and after http, https, ws, wss and ftp comes a host that is
\* not empty (EmptyHost) and begins with a letter or a digit
UrlParses(chars) ==
    \E i \in DOMAIN chars :
        /\ chars[i] = ":"
        /\ i > 1
        /\ IsAlphabetic(chars[1])
        /\ \A j \in 1..(i - 1) : IsSchemeChar(chars[j])
        /\ ToLowercase(SubSeq(chars, 1, i - 1)) \in HostSchemes
               => /\ AfterSlashes(SubSeq(chars, i + 1, Len(chars))) # <<>>
                  /\ IsAlphanumeric(Head(AfterSlashes(SubSeq(chars, i + 1, Len(chars)))))

\* the closure of head.rs validate_charset
CommonCharsets == {<<"u", "t", "f", "-", "8">>,
                   <<"u", "t", "f", "8">>,
                   <<"i", "s", "o", "-", "8", "8", "5", "9", "-", "1">>,
                   <<"w", "i", "n", "d", "o", "w", "s", "-", "1", "2", "5", "2">>}

\* the closures that look at a string value: does the check report it?
StringCheckFires(c, s) ==
    CASE c.check = "string_not_empty" -> Trim(s) = <<>>
      [] c.check = "string_min_length" -> Len(Trim(s)) < c.n
      [] c.check = "string_max_length" -> Len(Trim(s)) > c.n
      [] c.check = "string_not_generic" -> ToLowercase(Trim(s)) \in c.values
      [] c.check = "string_valid_language_code" ->
            /\ ~ParsesAsLanguageIdentifier(ToLowercase(Trim(s)))
            /\ ~IsValidLanguagePattern(ToLowercase(Trim(s)))
      [] c.check = "string_allowed_values" ->
            ToLowercase(Trim(s)) \notin {ToLowercase(a) : a \in c.values}
      [] c.check = "charset" -> ToLowercase(Trim(s)) \notin CommonCharsets
      [] c.check = "string_valid_url" -> ~UrlParses(Trim(s))
      [] c.check = "string_file_extension" -> \A e \in c.values : ~IsSuffix(e, Trim(s))
      [] c.check = "string_prefer_https" ->
            IsPrefix(<<"h", "t", "t", "p", ":", "/", "/">>, Trim(s))
      [] OTHER -> FALSE

\* the kind and the message of the report of a value check
ValueCheckKind(c) ==
    IF c.check \in {"string_not_empty", "array_not_empty", "number_min", "string_valid_url"}
    THEN "Error"
    ELSE "Warning"

ValueCheckMessage(c) ==
    CASE c.check = "string_not_empty" -> <<"String cannot be empty">>
      [] c.check = "array_not_empty" -> <<"Array cannot be empty">>
      [] c.check = "string_min_length" -> <<"String too short (minimum characters)", c.n>>
      [] c.check = "string_max_length" -> <<"String exceeds characters", c.n>>
      [] c.check = "string_not_generic" -> <<"Generic or uninformative value">>
      [] c.check = "string_valid_language_code" -> <<"Potentially invalid language code">>
      [] c.check = "string_allowed_values" -> <<"Uncommon value specified">>
      [] c.check = "charset" -> <<"Uncommon character encoding">>
      [] c.check = "string_valid_url" -> <<"Value should be a valid URL or path">>
      [] c.check = "string_file_extension" -> <<"File should have extension">>
      [] c.check = "string_prefer_https" -> <<"Consider using HTTPS instead of HTTP">>
      [] c.check = "number_min" -> <<"Number must be at least", c.n>>

\* one closure of value_checks applied to the value
ValueCheck(v, c, value, span) ==
    IF \/ value.kind = "String" /\ StringCheckFires(c, value.str)
       \/ value.kind = "Array" /\ c.check = "array_not_empty" /\ value.items = <<>>
       \/ value.kind = "Number" /\ c.check = "number_min" /\ value.num < c.n
    THEN VAdd(v, ValueCheckKind(c), ValueCheckMessage(c), <<Label(span, c.check)>>)
    ELSE v

RECURSIVE ValueChecksUntilReport(_, _, _, _, _)
\* mutant: the loop over the value checks ends with the first one that reports
ValueChecksUntilReport(v, checks, i, value, span) ==
    IF i > Len(checks) THEN v
    ELSE IF ValueCheck(v, checks[i], value, span) # v
    THEN ValueCheck(v, checks[i], value, span)
    ELSE ValueChecksUntilReport(v, checks, i + 1, value, span)

RECURSIVE ValueChecks(_, _, _, _, _)
\* `for value_check in &self.value_checks { value_check(value, span); }`
ValueChecks(v, checks, i, value, span) ==
    IF i > Len(checks) THEN v
    ELSE ValueChecks(ValueCheck(v, checks[i], value, span), checks, i + 1, value, span)

\* mutant: a failed type check does not end validate_attribute_value
ReturnsNever(ok) == FALSE

\* `if !type_check(value, span) { return; }`
Returns(ok) == ~ok

RECURSIVE TypeChecks(_, _, _, _, _)
\* `for type_check in &self.type_checks { ... }` -> [v, ok]: ok iff the loop ran to its end
TypeChecks(v, checks, i, value, span) ==
    IF i > Len(checks) THEN [v |-> v, ok |-> TRUE]
    ELSE Let(TypeCheck(v, checks[i], value, span), LAMBDA r :
             IF Returns(r.ok) THEN [v |-> r.v, ok |-> FALSE]
             ELSE TypeChecks(r.v, checks, i + 1, value, span))

\* GenericValidator::validate_attribute_value
ValidateAttributeValue(v, g, value, span) ==
    Let(TypeChecks(v, g.type_checks, 1, value, span), LAMBDA t :
        IF ~t.ok THEN t.v ELSE ValueChecks(t.v, g.value_checks, 1, value, span))

\* Block::find_all_child_blocks
FindAllChildBlocks(block, name) ==
    Let(SelectSeq(block.children, LAMBDA n : n.type = "Block" /\ NameIs(n.block, name)),
        LAMBDA ns : [i \in DOMAIN ns |-> ns[i].block])

RECURSIVE RequireOneOf(_, _, _, _, _)
\* validate_block: the `for attr in &required` loop -> [v, found]
RequireOneOf(v, g, block, i, found) ==
    IF i > Len(g.require_on_of_attrs) THEN [v |-> v, found |-> found]
    ELSE Let(VIntern(v, g.require_on_of_attrs[i]), LAMBDA k :
             IF GetAttribute(block, k.key) = 0 THEN RequireOneOf(k.v, g, block, i + 1, found)
             ELSE RequireOneOf(
                      ValidateAttributeValue(k.v, g, FoundAttribute(block, k.key).value,
                                             FoundAttribute(block, k.key).value.span),
                      g, block, i + 1, TRUE))

\* validate_block: `if self.no_children && !block.children.is_empty() { ... }`
ReportChildren(v, g, block) ==
    IF g.no_children /\ block.children # <<>>
    THEN VAdd(v, "Error", <<g.name, "should not have children">>,
              <<Label(block.span, "defined as block but should not have children")>>)
    ELSE v

\* validate_block: `if !found { ... }`
ReportNoneOf(r, g, block) ==
    IF r.found THEN r.v
    ELSE VAdd(r.v, "Error", <<g.name, "should have one of the following attributes">>,
              <<Label(block.span, "should have at least one of the following attributes")>>)

\* GenericValidator::validate_block
ValidateBlockOf(v, g, block) ==
    IF g.require_on_of_attrs = <<>> THEN ReportChildren(v, g, block)
    ELSE ReportNoneOf(RequireOneOf(ReportChildren(v, g, block), g, block, 1, FALSE), g, block)

RECURSIVE FoundBlocks(_, _, _, _)
\* validate_found_items: the blocks found where a block may stand
FoundBlocks(v, g, blocks, i) ==
    IF i > Len(blocks) THEN v
    ELSE FoundBlocks(
             IF g.disallowed
             THEN VAdd(v, "Error", <<g.name, "should not be used">>,
                       <<Label(blocks[i].span, "found as block but should not be used")>>)
             ELSE ValidateBlockOf(v, g, blocks[i]),
             g, blocks, i + 1)

RECURSIVE ReportBlocks(_, _, _, _, _)
\* validate_found_items: one report per block found where none may stand
ReportBlocks(v, blocks, i, message, labels) ==
    IF i > Len(blocks) THEN v
    ELSE ReportBlocks(VAdd(v, "Error", message,
                           labels \o <<Label(blocks[i].span, "found as block")>>),
                      blocks, i + 1, message, labels)

ExpectedType(g) ==
    CASE g.target_type = "Attribute" -> "attribute"
      [] g.target_type = "Block" -> "block"
      [] g.target_type = "Either" -> "attribute or block"

\* mutant: the arm `(None, None, _)` does not look at self.required
ReportMissingItemAlways(v, g, parent_span) ==
    VAdd(v, "Error", <<"Missing required", ExpectedType(g), g.name>>,
         <<Label(parent_span, "is required")>>)

\* validate_found_items: the arm `(None, None, _)`
ReportMissingItem(v, g, parent_span) ==
    IF g.required
    THEN VAdd(v, "Error", <<"Missing required", ExpectedType(g), g.name>>,
              <<Label(parent_span, "is required")>>)
    ELSE v

\* mutant: the arm `(Some(attr), Some(blocks), _)` comes before the arms of a wrong kind
ValidateFoundItemsBothFirst(v, g, attr, blocks, parent_span) ==
    IF attr.some /\ blocks = <<>> /\ g.target_type \in {"Attribute", "Either"}
    THEN ValidateAttributeValue(v, g, attr.value, attr.value.span)
    ELSE IF ~attr.some /\ blocks # <<>> /\ g.target_type \in {"Block", "Either"}
    THEN FoundBlocks(v, g, blocks, 1)
    ELSE IF attr.some /\ blocks # <<>>
    THEN ReportBlocks(v, blocks, 1, <<g.name, "defined as both attribute and block">>,
                      <<Label(attr.value.span, "defined as attribute here")>>)
    ELSE IF attr.some /\ g.target_type = "Block"
    THEN VAdd(v, "Error", <<g.name, "should be a block, not an attribute">>,
              <<Label(attr.value.span, "found as attribute but expected as block")>>)
    ELSE IF blocks # <<>> /\ g.target_type = "Attribute"
    THEN ReportBlocks(v, blocks, 1, <<g.name, "should be an attribute, not a block">>, <<>>)
    ELSE ReportMissingItem(v, g, parent_span)

\* GenericValidator::validate_found_items, the arms of the match in their order
ValidateFoundItems(v, g, attr, blocks, parent_span) ==
    IF attr.some /\ blocks = <<>> /\ g.target_type \in {"Attribute", "Either"}
    THEN ValidateAttributeValue(v, g, attr.value, attr.value.span)
    ELSE IF ~attr.some /\ blocks # <<>> /\ g.target_type \in {"Block", "Either"}
    THEN FoundBlocks(v, g, blocks, 1)
    ELSE IF attr.some /\ g.target_type = "Block"
    THEN VAdd(v, "Error", <<g.name, "should be a block, not an attribute">>,
              <<Label(attr.value.span, "found as attribute but expected as block")>>)
    ELSE IF blocks # <<>> /\ g.target_type = "Attribute"
    THEN ReportBlocks(v, blocks, 1, <<g.name, "should be an attribute, not a block">>, <<>>)
    ELSE IF attr.some /\ blocks # <<>>
    THEN ReportBlocks(v, blocks, 1, <<g.name, "defined as both attribute and block">>,
                      <<Label(attr.value.span, "defined as attribute here")>>)
    ELSE ReportMissingItem(v, g, parent_span)

RECURSIVE InternAll(_, _, _, _)
\* in_parent: `parent_names.iter().map(|name| get_or_intern(name)).collect()` -> [v, keys]
InternAll(v, names, i, keys) ==
    IF i > Len(names) THEN [v |-> v, keys |-> keys]
    ELSE Let(VIntern(v, names[i]), LAMBDA k : InternAll(k.v, names, i + 1, Append(keys, k.key)))

\* validate: what is found in one parent is validated.  The parent's span stands for
\* the span of its name.
ValidateInParent(v, g, key, parent) ==
    ValidateFoundItems(v, g, FoundAttribute(parent, key), FindAllChildBlocks(parent, key),
                       parent.span)

RECURSIVE ValidateInParents(_, _, _, _, _, _)
\* validate: `for parent in parents { ... }`
ValidateInParents(v, g, key, doc, parents, i) ==
    IF i > Len(parents) THEN v
    ELSE ValidateInParents(ValidateInParent(v, g, key, BlockAt(doc, parents[i])),
                           g, key, doc, parents, i + 1)

RECURSIVE RootAttribute(_, _, _, _)
\* validate_in_document_root: the attribute of the last top-level block that has one
RootAttribute(doc, key, i, found) ==
    IF i > Len(doc) THEN found
    ELSE RootAttribute(doc, key, i + 1,
                       IF GetAttribute(doc[i], key) # 0 THEN FoundAttribute(doc[i], key)
                       ELSE found)

RECURSIVE RootBlocks(_, _, _)
\* validate_in_document_root: the top-level blocks with the name and their children with it
RootBlocks(doc, key, i) ==
    IF i > Len(doc) THEN <<>>
    ELSE (IF NameIs(doc[i], key) THEN <<doc[i]>> ELSE <<>>)
         \o FindAllChildBlocks(doc[i], key) \o RootBlocks(doc, key, i + 1)

\* GenericValidator::validate_in_document_root
ValidateInDocumentRoot(v, g, key, doc) ==
    ValidateFoundItems(v, g, RootAttribute(doc, key, 1, [some |-> FALSE, value |-> VBoolean(0)]),
                       RootBlocks(doc, key, 1), DefaultSpan)

\* the builder calls and GenericValidator::validate
Validate(v, g, doc) ==
    Let(VIntern(v, g.name), LAMBDA n :
        IF g.parent.some
        THEN Let(InternAll(n.v, g.parent.names, 1, <<>>), LAMBDA ps :
                 ValidateInParents(ps.v, g, n.key, doc, FindInParent(doc, ps.keys), 1))
        ELSE ValidateInDocumentRoot(n.v, g, n.key, doc))

(* validator/rules/head.rs and validator/rules/link.rs.  The rules of head.rs  *)
(* return at once when the document has no head; a validator whose parent is   *)
(* [head] finds no parent then and reports nothing, so that test is left out.  *)

\* head.rs validate_title
HeadTitle ==
    StringNotGeneric(StringMaxLength(StringMinLength(StringNotEmpty(MustBeString(Required(
        InParent(AsAttribute(GenericValidatorNew("title")), <<"head">>)))), 10), 100),
        GenericTitles)

\* head.rs validate_lang
HeadLang ==
    StringValidLanguageCode(StringNotEmpty(MustBeString(Required(
        InParent(AsAttribute(GenericValidatorNew("lang")), <<"head">>)))))

\* head.rs validate_charset
HeadCharset ==
    CheckValue(StringNotEmpty(MustBeString(Required(
        InParent(AsAttribute(GenericValidatorNew("charset")), <<"head">>)))), Check("charset"))

AsValues == {<<"a", "u", "d", "i", "o">>,
             <<"d", "o", "c", "u", "m", "e", "n", "t">>,
             <<"e", "m", "b", "e", "d">>,
             <<"f", "e", "t", "c", "h">>,
             <<"f", "o", "n", "t">>,
             <<"i", "m", "a", "g", "e">>,
             <<"o", "b", "j", "e", "c", "t">>,
             <<"s", "c", "r", "i", "p", "t">>,
             <<"s", "t", "y", "l", "e">>,
             <<"t", "r", "a", "c", "k">>,
             <<"v", "i", "d", "e", "o">>,
             <<"w", "o", "r", "k", "e", "r">>}

\* link.rs validate_link: the validator of `as`
LinkAs ==
    StringAllowedValues(RequiredIf(StringNotEmpty(MustBeString(AsAttribute(
        InParent(GenericValidatorNew("as"), <<"head", "link">>)))), "RelIsPreload"), AsValues)

\* blocking.rs blocking_attribute
BlockingAttribute == StringNotEmpty(AsAttribute(MustBeString(GenericValidatorNew("blocking"))))

\* link.rs validate_link: the validator of `blocking`
LinkBlocking == ValidIf(InParent(BlockingAttribute, <<"head", "link">>), "RelAllowsBlocking")

(* validator/rules/scripts.rs and the free functions of validator/mod.rs *)

RECURSIVE FindAllByName(_, _)
RECURSIVE FindAllInNodes(_, _, _)
\* Block::find_all_by_name: the block itself and the blocks below it with the name
FindAllByName(block, name) ==
    (IF NameIs(block, name) THEN <<block>> ELSE <<>>) \o FindAllInNodes(block.children, 1, name)

FindAllInNodes(nodes, i, name) ==
    IF i > Len(nodes) THEN <<>>
    ELSE (IF nodes[i].type = "Block" THEN FindAllByName(nodes[i].block, name) ELSE <<>>)
         \o FindAllInNodes(nodes, i + 1, name)

\* validate_block_no_children(script_block, "Script")
ValidateBlockNoChildren(v, block) ==
    IF block.children # <<>>
    THEN VAdd(v, "Error", <<"Script blocks should not contain any children">>,
              <<Label(block.span, "Script block contains children")>>)
    ELSE v

\* validate_block_not_empty(script_block, "Script", Some("src"))
ValidateBlockNotEmpty(v, block) ==
    Let(VIntern(v, "src"), LAMBDA k :
        IF GetAttribute(block, k.key) = 0 /\ block.children = <<>>
        THEN VAdd(k.v, "Warning", <<"Script block appears to be empty">>,
                  <<Label(block.span, "Empty Script block")>>)
        ELSE k.v)

\* validate_mutually_exclusive_attributes(script_block, "async", "defer", ..)
ValidateMutuallyExclusiveAttributes(v, block) ==
    Let(VIntern(v, "async"), LAMBDA a :
    Let(VIntern(a.v, "defer"), LAMBDA d :
        IF GetAttribute(block, a.key) # 0 /\ GetAttribute(block, d.key) # 0
        THEN VAdd(d.v, "Warning", <<"Script has both 'async' and 'defer' attributes">>,
                  <<Label(block.span, "Conflicting 'async' and 'defer' attributes")>>)
        ELSE d.v))

\* one statement after another: x is computed, then F of its value
Then(x, F(_)) == CHOOSE r \in {F(y) : y \in {x}} : TRUE

\* the four validators of validate_script_block
ScriptSrc ==
    StringPreferHttps(StringFileExtension(StringValidUrl(StringNotEmpty(
        InParent(MustBeString(AsAttribute(GenericValidatorNew("src"))), <<"head", "script">>))),
        <<".", "j", "s">>))

ScriptAsync ==
    MustBeBoolean(AsAttribute(InParent(GenericValidatorNew("async"), <<"head", "script">>)))

ScriptDefer ==
    MustBeBoolean(AsAttribute(InParent(GenericValidatorNew("defer"), <<"head", "script">>)))

ScriptTypes == {<<"t", "e", "x", "t", "/", "j", "a", "v", "a", "s", "c", "r", "i", "p", "t">>,
                <<"a", "p", "p", "l", "i", "c", "a", "t", "i", "o", "n", "/",
                  "j", "a", "v", "a", "s", "c", "r", "i", "p", "t">>,
                SModule}

ScriptType ==
    StringAllowedValues(StringNotEmpty(MustBeString(AsAttribute(
        InParent(GenericValidatorNew("type"), <<"head", "script">>)))), ScriptTypes)

\* validate_script_block: the checks of the block, the four validators run on the
\* document, the check of async against defer
ValidateScriptBlock(v, block, doc) ==
    Then(ValidateBlockNotEmpty(ValidateBlockNoChildren(v, block), block), LAMBDA v0 :
    Then(Validate(v0, ScriptSrc, doc), LAMBDA v1 :
    Then(Validate(v1, ScriptAsync, doc), LAMBDA v2 :
    Then(Validate(v2, ScriptDefer, doc), LAMBDA v3 :
    Then(Validate(v3, ScriptType, doc), LAMBDA v4 :
        ValidateMutuallyExclusiveAttributes(v4, block))))))

RECURSIVE ValidateScriptBlocks(_, _, _, _)
\* validate_script: `for script_block in blocks { validate_script_block(..) }`
ValidateScriptBlocks(v, blocks, i, doc) ==
    IF i > Len(blocks) THEN v
    ELSE Then(ValidateScriptBlock(v, blocks[i], doc), LAMBDA w :
              ValidateScriptBlocks(w, blocks, i + 1, doc))

\* scripts.rs validate_script
ValidateScript(v, doc) ==
    Let(VIntern(v, "head"), LAMBDA h :
        IF FindBlockByName(doc, h.key) = 0 THEN h.v
        ELSE Let(VIntern(h.v, "script"), LAMBDA k :
                 ValidateScriptBlocks(k.v, FindAllByName(doc[FindBlockByName(doc, h.key)], k.key),
                                      1, doc)))

\* a rule function run on a document: a rule of the document, or a GenericValidator
ApplyRule(v, r, doc, info) ==
    CASE r.fn = "ensure_required_tags" -> EnsureRequiredTags(v, doc, info)
      [] r.fn = "validate_script" -> ValidateScript(v, doc)
      [] r.fn = "validate_block_name_uniqueness" -> ValidateBlockNameUniqueness(v, doc, info)
      [] r.fn = "validate_title" -> ValidateTitle(v, doc, info)
      [] OTHER -> Validate(v, r.g, doc)

-----------------------------------------------------------------------------
(* cli/src/commands/build.rs and context.rs: the parallel loop and          *)
(* Context::process_file.  A worker w runs the closure of try_for_each for  *)
(* one file at a time:                                                      *)
(*   idle -> lock -> locked -> (copy | init -> parse ... -> write) -> idle  *)

WorkerInit == [pc |-> "idle", file |-> NoFile, cur |-> 0, doc |-> <<>>, info |-> InfoNew]

\* the Error-kind reports the bag holds
ErrorReports(b) == {i \in DOMAIN b.reports : b.reports[i].kind = "Error"}

\* a history entry: worker w has executed op on its file, leaving the bag b
Entry(w, op, b) ==
    [file |-> wk[w].file, op |-> op, err |-> HasErrors(b), errors |-> Cardinality(ErrorReports(b))]

tableIdle == UNCHANGED tableVars
findIdle == UNCHANGED findVars
ruleIdle == UNCHANGED ruleVars

\* mutant: the lock is handed out while another worker holds it
CtxLockFreeAlways(holder) == TRUE

\* Mutex::lock on the shared Context blocks until no one holds it
CtxLockFree(holder) == holder = 0

\* the parallel iterator hands one of the remaining files to a free worker
TakeFile(w) ==
    /\ wk[w].pc = "idle"
    /\ \E f \in pending :
        /\ pending' = pending \ {f}
        /\ wk' = [wk EXCEPT ![w] = [WorkerInit EXCEPT !.pc = "lock", !.file = f]]
    /\ UNCHANGED <<files, pool, ctx_lock, ctx_poisoned, interner, bag, log, rendered, written>>
    /\ tableIdle /\ findIdle /\ ruleIdle

\* `let mut ctx = ctx.lock().unwrap();`
Lock(w) ==
    /\ wk[w].pc = "lock"
    /\ CtxLockFree(ctx_lock)
    /\ ~ctx_poisoned
    /\ ctx_lock' = w
    /\ wk' = [wk EXCEPT ![w].pc = "locked"]
    /\ UNCHANGED <<files, pending, pool, ctx_poisoned, interner, bag, log, rendered, written>>
    /\ tableIdle /\ findIdle /\ ruleIdle

\* lock() on a poisoned mutex is an Err, and unwrap() panics
LockPoisoned(w) ==
    /\ wk[w].pc = "lock"
    /\ CtxLockFree(ctx_lock)
    /\ ctx_poisoned
    /\ wk' = [wk EXCEPT ![w].pc = "idle"]
    /\ log' = Append(log, Entry(w, "lock_panic", bag))
    /\ UNCHANGED <<files, pending, pool, ctx_lock, ctx_poisoned, interner, bag, rendered, written>>
    /\ tableIdle /\ findIdle /\ ruleIdle

\* `if file.extension() != Some("mr") { ... fs_err::copy(file, &out)?; return Ok(()); }`
Copy(w) ==
    /\ wk[w].pc = "locked"
    /\ files[wk[w].file].ext # "mr"
    /\ wk' = [wk EXCEPT ![w].pc = "idle"]
    /\ ctx_lock' = 0
    /\ log' = Append(log, Entry(w, "copy", bag))
    /\ UNCHANGED <<files, pending, pool, ctx_poisoned, interner, bag, rendered, written>>
    /\ tableIdle /\ findIdle /\ ruleIdle

\* process_file: current_file, read_string, ReportsBag::init, get_tokens, Parser::new
BagInitStep(w) ==
    /\ wk[w].pc = "locked"
    /\ files[wk[w].file].ext = "mr"
    /\ bag' = BagInit(bag, wk[w].file, wk[w].file)
    /\ wk' = [wk EXCEPT ![w].pc = "parse", ![w].cur = 0, ![w].doc = <<>>]
    /\ log' = Append(log, Entry(w, "init", bag'))
    /\ UNCHANGED <<files, pending, pool, ctx_lock, ctx_poisoned, interner, rendered, written>>
    /\ tableIdle /\ findIdle /\ ruleIdle

\* mutant: the document loop never stops on errors
ParseBreaksNever(b) == FALSE

\* Parser::parse: `if ReportsBag::has_errors() { break; }`
ParseBreaks(b) == HasErrors(b)

\* Parser::new, and the parser between two iterations of the loop of Parser::parse
ParserAt(w) == [cur |-> wk[w].cur, panic |-> FALSE, bag |-> bag, tab |-> interner]

\* a panic unwinds the closure: the MutexGuard is dropped and poisons the mutex
Unwind(w, op, b) ==
    /\ wk' = [wk EXCEPT ![w].pc = "idle"]
    /\ ctx_lock' = 0
    /\ ctx_poisoned' = TRUE
    /\ log' = Append(log, Entry(w, op, b))

\* `self.doc.add_block(block); if ReportsBag::has_errors() { break; }`
ParseOutcome(w, r) ==
    /\ bag' = r.p.bag
    /\ interner' = r.p.tab
    /\ IF r.p.panic
       THEN Unwind(w, "parse_panic", r.p.bag)
       ELSE /\ wk' = [wk EXCEPT ![w].pc = IF ParseBreaks(r.p.bag) THEN "parsed" ELSE "parse",
                                ![w].cur = r.p.cur,
                                ![w].doc = Append(@, r.block)]
            /\ log' = Append(log, Entry(w, "parse_block", r.p.bag))
            /\ UNCHANGED <<ctx_lock, ctx_poisoned>>

\* Parser::parse: one iteration of `while !self.is_at_end()`
ParseStep(w) ==
    /\ wk[w].pc = "parse"
    /\ ~IsAtEnd(files[wk[w].file].tokens, ParserAt(w))
    /\ ParseOutcome(w, ParseBlock(files[wk[w].file].tokens, ParserAt(w)))
    /\ UNCHANGED <<files, pending, pool, rendered, written>>
    /\ tableIdle /\ findIdle /\ ruleIdle

\* Parser::parse: the loop ends at the end of the tokens
ParseEnd(w) ==
    /\ wk[w].pc = "parse"
    /\ wk[w].cur >= Len(files[wk[w].file].tokens)
    /\ wk' = [wk EXCEPT ![w].pc = "parsed"]
    /\ UNCHANGED <<files, pending, pool, ctx_lock, ctx_poisoned, interner, bag, log, rendered, written>>
    /\ tableIdle /\ findIdle /\ ruleIdle

\* ReportsBag::print: every report is rendered against the bag's file and source text
Rendering(b, file) ==
    {[report |-> b.reports[i], bag_file |-> b.file, source |-> b.source_content, printer |-> file]
        : i \in DOMAIN b.reports}

\* the first ReportsBag::print()
PrintParse(w) ==
    /\ wk[w].pc = "parsed"
    /\ rendered' = rendered \cup Rendering(bag, wk[w].file)
    /\ wk' = [wk EXCEPT ![w].pc = "gate"]
    /\ log' = Append(log, Entry(w, "print", bag))
    /\ UNCHANGED <<files, pending, pool, ctx_lock, ctx_poisoned, interner, bag, written>>
    /\ tableIdle /\ findIdle /\ ruleIdle

\* mutant: the gate after parsing never returns
GateReturnsNever(b) == FALSE

\* `if ReportsBag::has_errors() { ...; return Ok(()); }`
GateReturns(b) == HasErrors(b)

\* mutant: the closure returns an Err, and try_for_each hands out no further file
ContinuesNever(rest) == {}

\* the closure returns Ok(()): try_for_each goes on with the files that remain
Continues(rest) == rest

ReturnOnErrors(w) ==
    /\ wk[w].pc = "gate"
    /\ GateReturns(bag)
    /\ wk' = [wk EXCEPT ![w].pc = "idle"]
    /\ ctx_lock' = 0
    /\ pending' = Continues(pending)
    /\ log' = Append(log, Entry(w, "return", bag))
    /\ UNCHANGED <<files, pool, ctx_poisoned, interner, bag, rendered, written>>
    /\ tableIdle /\ findIdle /\ ruleIdle

\* ReportsBag::clear_errors()
ClearErrorsStep(w) ==
    /\ wk[w].pc = "gate"
    /\ ~GateReturns(bag)
    /\ bag' = ClearErrors(bag)
    /\ wk' = [wk EXCEPT ![w].pc = "index"]
    /\ log' = Append(log, Entry(w, "clear_errors", bag'))
    /\ UNCHANGED <<files, pending, pool, ctx_lock, ctx_poisoned, interner, rendered, written>>
    /\ tableIdle /\ findIdle /\ ruleIdle

\* `let info = &mut Info::new(); doc.collect_info(info);`
CollectOutcome(w, info) ==
    IF info.panic
    THEN Unwind(w, "index_panic", bag)
    ELSE /\ wk' = [wk EXCEPT ![w].pc = "validate", ![w].info = info]
         /\ log' = Append(log, Entry(w, "collect_info", bag))
         /\ UNCHANGED <<ctx_lock, ctx_poisoned>>

CollectInfoStep(w) ==
    /\ wk[w].pc = "index"
    /\ CollectOutcome(w, CollectInfo(wk[w].doc))
    /\ UNCHANGED <<files, pending, pool, interner, bag, rendered, written>>
    /\ tableIdle /\ findIdle /\ ruleIdle

\* the globals after `doc.validate(info)`
ValidateOutcome(w, v) ==
    /\ bag' = v.bag
    /\ interner' = v.tab
    /\ IF v.panic
       THEN Unwind(w, "validate_panic", v.bag)
       ELSE /\ wk' = [wk EXCEPT ![w].pc = "validated"]
            /\ log' = Append(log, Entry(w, "validate", v.bag))
            /\ UNCHANGED <<ctx_lock, ctx_poisoned>>

\* `doc.validate(info)`
ValidateStep(w) ==
    /\ wk[w].pc = "validate"
    /\ ValidateOutcome(w, ValidateDocument([bag |-> bag, tab |-> interner, panic |-> FALSE],
                                           wk[w].doc, wk[w].info))
    /\ UNCHANGED <<files, pending, pool, rendered, written>>
    /\ tableIdle /\ findIdle /\ ruleIdle

\* the second ReportsBag::print()
PrintValidation(w) ==
    /\ wk[w].pc = "validated"
    /\ rendered' = rendered \cup Rendering(bag, wk[w].file)
    /\ wk' = [wk EXCEPT ![w].pc = "to_html_ir"]
    /\ log' = Append(log, Entry(w, "print", bag))
    /\ UNCHANGED <<files, pending, pool, ctx_lock, ctx_poisoned, interner, bag, written>>
    /\ tableIdle /\ findIdle /\ ruleIdle

\* `let ir = doc.to_html_ir();`
ToHtmlIr(w) ==
    /\ wk[w].pc = "to_html_ir"
    /\ wk' = [wk EXCEPT ![w].pc = "generate"]
    /\ log' = Append(log, Entry(w, "to_html_ir", bag))
    /\ UNCHANGED <<files, pending, pool, ctx_lock, ctx_poisoned, interner, bag, rendered, written>>
    /\ tableIdle /\ findIdle /\ ruleIdle

\* `ir.generate(codegen);`
Generate(w) ==
    /\ wk[w].pc = "generate"
    /\ wk' = [wk EXCEPT ![w].pc = "write"]
    /\ log' = Append(log, Entry(w, "generate", bag))
    /\ UNCHANGED <<files, pending, pool, ctx_lock, ctx_poisoned, interner, bag, rendered, written>>
    /\ tableIdle /\ findIdle /\ ruleIdle

\* `codegen.write_to_file(&file)?; Ok(())`
WriteToFile(w) ==
    /\ wk[w].pc = "write"
    /\ written' = written \cup {wk[w].file}
    /\ wk' = [wk EXCEPT ![w].pc = "idle"]
    /\ ctx_lock' = 0
    /\ log' = Append(log, Entry(w, "write_to_file", bag))
    /\ UNCHANGED <<files, pending, pool, ctx_poisoned, interner, bag, rendered>>
    /\ tableIdle /\ findIdle /\ ruleIdle

-----------------------------------------------------------------------------
(* Inputs *)


Attr(name, tok) == <<Tok("Dot"), Ident(name), Tok("Equals"), tok>>
Open(name) == <<Tok("Dot"), Ident(name)>>

\* .head(.title="Documentation Home Page", .lang="en", .charset="utf-8"){ }.body{ }
DocPlain ==
    Open("head") \o <<Tok("ParenOpen")>> \o Attr("title", StrTok(SDocumentation))
    \o <<Tok("Comma")>> \o Attr("lang", StrTok(SEn))
    \o <<Tok("Comma")>> \o Attr("charset", StrTok(SUtf8))
    \o <<Tok("ParenClose"), Tok("BraceOpen"), Tok("BraceClose")>>
    \o Open("body") \o <<Tok("BraceOpen"), Tok("BraceClose")>>

\* .head(.title="Home", .keywords=["hi", 1, [true]]){ .lang = "en", .link(.rel="preload"){} }
\* .body{ "hi", .div{ .p{ "hi" } } .div }
DocRich ==
    Open("head") \o <<Tok("ParenOpen")>> \o Attr("title", StrTok(SHome))
    \o <<Tok("Comma")>> \o Attr("keywords", Tok("BracketOpen"))
    \o <<StrTok(SText), Tok("Comma"), NumTok(1), Tok("Comma"),
         Tok("BracketOpen"), BoolTok(TRUE), Tok("BracketClose"), Tok("BracketClose")>>
    \o <<Tok("ParenClose"), Tok("BraceOpen")>>
    \o Attr("lang", StrTok(SEn)) \o <<Tok("Comma")>>
    \o Open("link") \o <<Tok("ParenOpen")>> \o Attr("rel", StrTok(SPreload))
    \o <<Tok("ParenClose"), Tok("BraceOpen"), Tok("BraceClose"), Tok("BraceClose")>>
    \o Open("body") \o <<Tok("BraceOpen"), StrTok(SText), Tok("Comma")>>
    \o Open("div") \o <<Tok("BraceOpen")>> \o Open("p")
    \o <<Tok("BraceOpen"), StrTok(SText), Tok("BraceClose"), Tok("BraceClose")>>
    \o Open("div") \o <<Tok("BraceClose")>>

Samples == {DocPlain, DocRich}

EditToks == {Tok(k) : k \in Punctuation}
            \cup {Ident("head"), Ident("body"), Ident("title"), Ident("div"),
                  StrTok(<<>>), StrTok(SHome), NumTok(1), BoolTok(TRUE)}

RawToks == {Tok(k) : k \in Punctuation} \cup {Ident("head"), StrTok(SHome), NumTok(1)}

\* a sample as it is, cut short, or with one token removed, replaced or inserted
Edits(s) ==
    {SubSeq(s, 1, n) : n \in 0..Len(s)}
    \cup {SubSeq(s, 1, i - 1) \o SubSeq(s, i + 1, Len(s)) : i \in 1..Len(s)}
    \cup {[s EXCEPT ![i] = t] : i \in 1..Len(s), t \in EditToks}
    \cup {SubSeq(s, 1, i) \o <<t>> \o SubSeq(s, i + 1, Len(s)) : i \in 0..Len(s), t \in EditToks}

\* .head(.title="Documentation Home Page", .hidden){ } .body{ }
DocBare ==
    Open("head") \o <<Tok("ParenOpen")>> \o Attr("title", StrTok(SDocumentation))
    \o <<Tok("Comma"), Tok("Dot"), Ident("hidden")>>
    \o <<Tok("ParenClose"), Tok("BraceOpen"), Tok("BraceClose")>>
    \o Open("body") \o <<Tok("BraceOpen"), Tok("BraceClose")>>

\* .head(.title="Documentation Home Page", .title="en", .charset="utf-8"){ } .body{ }
DocTwice == [DocPlain EXCEPT ![10] = Ident("title")]

\* .head(.title="Documentation Home Page"){ } .body{ .div(.title="Home", .title="en"){ } }
DocNested ==
    Open("head") \o <<Tok("ParenOpen")>> \o Attr("title", StrTok(SDocumentation))
    \o <<Tok("ParenClose"), Tok("BraceOpen"), Tok("BraceClose")>>
    \o Open("body") \o <<Tok("BraceOpen")>>
    \o Open("div") \o <<Tok("ParenOpen")>> \o Attr("title", StrTok(SHome))
    \o <<Tok("Comma")>> \o Attr("title", StrTok(SEn))
    \o <<Tok("ParenClose"), Tok("BraceOpen"), Tok("BraceClose"), Tok("BraceClose")>>

Inputs ==
    UNION {Edits(s) : s \in Samples} \cup SeqsUpTo(RawToks, MaxRawLen)
    \cup {DocBare, DocTwice, DocNested}

MrFile(toks) == [ext |-> "mr", tokens |-> toks]
AssetFile == [ext |-> "css", tokens |-> <<>>]

TableIdleInit ==
    /\ tpc = [t \in {} |-> "idle"]
    /\ targ = [t \in {} |-> 0]
    /\ table_lock = 0
    /\ returned = <<>>
    /\ resolved = <<>>

FindIdleInit ==
    /\ fdoc = <<>>
    /\ fpath = <<>>
    /\ fresult = [called |-> FALSE, blocks |-> <<>>]

RuleIdleInit ==
    /\ rsrc = <<>>
    /\ rdoc = <<>>
    /\ rinfo = InfoNew
    /\ rule = [fn |-> "none", g |-> GenericValidatorNew("")]
    /\ rpc = "idle"

BuildInit(fs, workers) ==
    /\ files = fs
    /\ pending = DOMAIN fs
    /\ pool = workers
    /\ wk = [w \in workers |-> WorkerInit]
    /\ ctx_lock = 0
    /\ ctx_poisoned = FALSE
    /\ interner = <<>>
    /\ bag = BagNew(NoFile, NoFile)
    /\ log = <<>>
    /\ rendered = {}
    /\ written = {}

\* one file compiled by one worker
Init ==
    /\ \E f \in {MrFile(t) : t \in Inputs} \cup {AssetFile} : BuildInit(<<f>>, {1})
    /\ TableIdleInit
    /\ FindIdleInit
    /\ RuleIdleInit

Next ==
    \/ \E w \in pool : TakeFile(w)
    \/ \E w \in pool : Lock(w)
    \/ \E w \in pool : Copy(w)
    \/ \E w \in pool : BagInitStep(w)
    \/ \E w \in pool : ParseStep(w)
    \/ \E w \in pool : ParseEnd(w)
    \/ \E w \in pool : PrintParse(w)
    \/ \E w \in pool : ReturnOnErrors(w)
    \/ \E w \in pool : ClearErrorsStep(w)
    \/ \E w \in pool : CollectInfoStep(w)
    \/ \E w \in pool : ValidateStep(w)
    \/ \E w \in pool : PrintValidation(w)
    \/ \E w \in pool : ToHtmlIr(w)
    \/ \E w \in pool : Generate(w)
    \/ \E w \in pool : WriteToFile(w)

Spec == Init /\ [][Next]_vars

-----------------------------------------------------------------------------
(* The parallel loop of build_command: several workers, several files *)

\* .head(.title="Documentation Home Page") .body{ }
DocGood ==
    Open("head") \o <<Tok("ParenOpen")>> \o Attr("title", StrTok(SDocumentation))
    \o <<Tok("ParenClose")>> \o Open("body") \o <<Tok("BraceOpen"), Tok("BraceClose")>>

\* .head(.title="Home") .body{ }
DocWarn ==
    Open("head") \o <<Tok("ParenOpen")>> \o Attr("title", StrTok(SHome))
    \o <<Tok("ParenClose")>> \o Open("body") \o <<Tok("BraceOpen"), Tok("BraceClose")>>

\* a file of each kind: clean, with a warning, with a parse error, with a validation
\* error (an empty document), cut short after a dot, and an asset that is copied
FileKinds ==
    {MrFile(DocGood), MrFile(DocWarn), MrFile(<<StrTok(SHome)>>), MrFile(<<>>),
     MrFile(<<Tok("Dot")>>), AssetFile}

InitBuild ==
    /\ \E fs \in SeqsUpTo(FileKinds, MaxFiles) \ {<<>>} : BuildInit(fs, 1..NumWorkers)
    /\ TableIdleInit
    /\ FindIdleInit
    /\ RuleIdleInit

NextBuild ==
    \/ Next
    \/ \E w \in pool : LockPoisoned(w)

SpecBuild == InitBuild /\ [][NextBuild]_vars

-----------------------------------------------------------------------------
(* ast/ident_table.rs: threads calling get_or_intern and resolve *)

buildIdle == UNCHANGED buildVars

Texts == {"head", "body", "title"}

\* the calls begun so far
CallsMade == Len(returned) + Len(resolved) + Cardinality({t \in DOMAIN tpc : tpc[t] # "idle"})

\* a thread enters get_or_intern(name)
CallIntern(t) ==
    /\ tpc[t] = "idle"
    /\ CallsMade < MaxCalls
    /\ \E text \in Texts : targ' = [targ EXCEPT ![t] = [text |-> text, key |-> NoName]]
    /\ tpc' = [tpc EXCEPT ![t] = "intern"]
    /\ UNCHANGED <<interner, table_lock, returned, resolved>>
    /\ buildIdle /\ findIdle /\ ruleIdle

\* a thread enters resolve(sym) with a handle some get_or_intern has returned
CallResolve(t) ==
    /\ tpc[t] = "idle"
    /\ CallsMade < MaxCalls
    /\ \E i \in DOMAIN returned : targ' = [targ EXCEPT ![t] = [text |-> "", key |-> returned[i].key]]
    /\ tpc' = [tpc EXCEPT ![t] = "resolve"]
    /\ UNCHANGED <<interner, table_lock, returned, resolved>>
    /\ buildIdle /\ findIdle /\ ruleIdle

\* `GLOBAL_TABLE.lock().unwrap()`
TableLock(t) ==
    /\ tpc[t] \in {"intern", "resolve"}
    /\ table_lock = 0
    /\ table_lock' = t
    /\ tpc' = [tpc EXCEPT ![t] = IF tpc[t] = "intern" THEN "intern_locked" ELSE "resolve_locked"]
    /\ UNCHANGED <<interner, targ, returned, resolved>>
    /\ buildIdle /\ findIdle /\ ruleIdle

\* the table and the history once intern has returned r
InternOutcome(t, r) ==
    /\ interner' = r.tab
    /\ returned' = Append(returned, [thread |-> t, text |-> targ[t].text, key |-> r.key])

\* `.intern(name)`, and the guard is dropped as get_or_intern returns
Intern(t) ==
    /\ tpc[t] = "intern_locked"
    /\ InternOutcome(t, RodeoIntern(interner, targ[t].text))
    /\ table_lock' = 0
    /\ tpc' = [tpc EXCEPT ![t] = "idle"]
    /\ UNCHANGED <<targ, resolved>>
    /\ buildIdle /\ findIdle /\ ruleIdle

\* `.resolve(sym).to_string()`, and the guard is dropped as resolve returns
Resolve(t) ==
    /\ tpc[t] = "resolve_locked"
    /\ KnownKey(interner, targ[t].key)
    /\ resolved' = Append(resolved, [thread |-> t, key |-> targ[t].key,
                                     text |-> RodeoResolve(interner, targ[t].key)])
    /\ table_lock' = 0
    /\ tpc' = [tpc EXCEPT ![t] = "idle"]
    /\ UNCHANGED <<interner, targ, returned>>
    /\ buildIdle /\ findIdle /\ ruleIdle

InitTable ==
    /\ BuildInit(<<>>, {})
    /\ tpc = [t \in 1..NumThreads |-> "idle"]
    /\ targ = [t \in 1..NumThreads |-> [text |-> "", key |-> NoName]]
    /\ table_lock = 0
    /\ returned = <<>>
    /\ resolved = <<>>
    /\ FindIdleInit
    /\ RuleIdleInit

NextTable ==
    \/ \E t \in DOMAIN tpc : CallIntern(t)
    \/ \E t \in DOMAIN tpc : CallResolve(t)
    \/ \E t \in DOMAIN tpc : TableLock(t)
    \/ \E t \in DOMAIN tpc : Intern(t)
    \/ \E t \in DOMAIN tpc : Resolve(t)

SpecTable == InitTable /\ [][NextTable]_vars

-----------------------------------------------------------------------------
(* find_in_parent called on documents that grow *)

(* Documents are grown one node at a time, the way the parser appends them:   *)
(* a new node becomes the last top-level block or the last child of a block   *)
(* on the path from the last top-level block to its last descendant.          *)

RECURSIVE CountNodes(_, _)
CountNodes(nodes, i) ==
    IF i > Len(nodes) THEN 0
    ELSE 1 + (IF nodes[i].type = "Block" THEN CountNodes(nodes[i].block.children, 1) ELSE 0)
           + CountNodes(nodes, i + 1)

RECURSIVE BlockCount(_, _)
BlockCount(doc, i) ==
    IF i > Len(doc) THEN 0
    ELSE 1 + CountNodes(doc[i].children, 1) + BlockCount(doc, i + 1)

RECURSIVE OpenBlocks(_, _)
\* the positions of the blocks still open when the parser is at the end of the document
OpenBlocks(doc, pos) ==
    IF BlockAt(doc, pos).children = <<>>
       \/ BlockAt(doc, pos).children[Len(BlockAt(doc, pos).children)].type # "Block"
    THEN {pos}
    ELSE {pos} \cup OpenBlocks(doc, Append(pos, Len(BlockAt(doc, pos).children)))

RECURSIVE PushChild(_, _, _)
\* `children.push(node)` on the block reached from block along pos
PushChild(block, pos, node) ==
    IF pos = <<>> THEN [block EXCEPT !.children = Append(@, node)]
    ELSE [block EXCEPT !.children[pos[1]].block = PushChild(@, Tail(pos), node)]

FindNames == {0, 1, 2}

NamedBlock(name) == [name |-> name, attributes |-> <<>>, children |-> <<>>, span |-> DefaultSpan]

FindBusy == ~fresult.called /\ BlockCount(fdoc, 1) < MaxNodes

\* MarstonDocument::add_block: one more top-level block
AddRootBlock ==
    /\ FindBusy
    /\ \E name \in FindNames : fdoc' = Append(fdoc, NamedBlock(name))
    /\ UNCHANGED <<fpath, fresult, interner>>
    /\ buildIdle /\ tableIdle /\ ruleIdle

\* `children.push(Node::Block(child))` or `children.push(Node::Text(..))` in a block
AddChildNode ==
    /\ FindBusy
    /\ fdoc # <<>>
    /\ \E pos \in OpenBlocks(fdoc, <<Len(fdoc)>>),
          node \in {BlockNode(NamedBlock(name)) : name \in FindNames} \cup {TextNode(SText)} :
            fdoc' = [fdoc EXCEPT ![Len(fdoc)] = PushChild(@, Tail(pos), node)]
    /\ UNCHANGED <<fpath, fresult, interner>>
    /\ buildIdle /\ tableIdle /\ ruleIdle

\* a call of find_in_parent on the document
Find ==
    /\ ~fresult.called
    /\ \E names \in SeqsUpTo(FindNames, MaxPath) :
        /\ fpath' = names
        /\ fresult' = [called |-> TRUE, blocks |-> FindInParent(fdoc, names)]
    /\ UNCHANGED <<fdoc, interner>>
    /\ buildIdle /\ tableIdle /\ ruleIdle

InitFind ==
    /\ BuildInit(<<>>, {})
    /\ TableIdleInit
    /\ FindIdleInit
    /\ RuleIdleInit

NextFind == AddRootBlock \/ AddChildNode \/ Find

SpecFind == InitFind /\ [][NextFind]_vars

-----------------------------------------------------------------------------
(* A validation rule run on a document: the source is parsed, the document is  *)
(* indexed, and one rule function is called on it.                             *)

MaxChecks == 2        \* type checks of a validator under test

RECURSIVE ParseLoop(_, _, _)
\* Parser::parse: `while !self.is_at_end() { ... }` -> [p, doc]
ParseLoop(toks, p, doc) ==
    IF IsAtEnd(toks, p) THEN [p |-> p, doc |-> doc]
    ELSE Let(ParseBlock(toks, p), LAMBDA r :
             IF r.p.panic THEN [p |-> r.p, doc |-> doc]
             ELSE IF ParseBreaks(r.p.bag) THEN [p |-> r.p, doc |-> Append(doc, r.block)]
             ELSE ParseLoop(toks, r.p, Append(doc, r.block)))

AttrOf(name, toks) == <<Tok("Dot"), Ident(name), Tok("Equals")>> \o toks

\* the values a title is given: strings, a number, a boolean, arrays
TitleValues ==
    {<<StrTok(SDocumentation)>>, <<StrTok(SHome)>>, <<StrTok(<<>>)>>, <<NumTok(1)>>,
     <<BoolTok(TRUE)>>, <<Tok("BracketOpen"), Tok("BracketClose")>>,
     <<Tok("BracketOpen"), StrTok(SText), Tok("BracketClose")>>}

\* .link(attrs){ body }
Link(attrs, body) ==
    Open("link") \o <<Tok("ParenOpen")>> \o attrs \o <<Tok("ParenClose"), Tok("BraceOpen")>>
    \o body \o <<Tok("BraceClose")>>

Rel(chars) == Attr("rel", StrTok(chars))

\* the link blocks a head is given
Links ==
    {<<>>,
     Link(<<>>, <<>>),
     Link(Rel(SPreload), <<>>),
     Link(Rel(SStylesheet), <<>>),
     Link(Rel(SHome), <<>>),
     Link(Attr("rel", NumTok(1)), <<>>),
     Link(Rel(SPreload) \o <<Tok("Comma")>> \o Attr("as", StrTok(SFont)), <<>>),
     Link(Rel(SPreload) \o <<Tok("Comma")>> \o Attr("as", NumTok(1)), <<>>),
     Link(Rel(SPreload), Open("as") \o <<Tok("BraceOpen"), Tok("BraceClose")>>),
     Link(Rel(SPreload), <<>>) \o Link(Rel(SStylesheet), <<>>)}

\* .head(attrs){ links } .body{ }
HeadDoc(attrs, links) ==
    Open("head") \o <<Tok("ParenOpen")>> \o attrs \o <<Tok("ParenClose"), Tok("BraceOpen")>>
    \o links \o <<Tok("BraceClose")>> \o Open("body") \o <<Tok("BraceOpen"), Tok("BraceClose")>>

RuleSources ==
    {DocPlain}
    \cup {HeadDoc(a, l) : a \in {<<>>} \cup {AttrOf("title", t) : t \in TitleValues}, l \in Links}

TypeCheckSet ==
    {Check("must_be_string"), Check("must_be_number"), Check("must_be_boolean"),
     Check("must_be_array"), [Check("must_be_array") EXCEPT !.inner = "String"]}

ValueCheckSeqs ==
    {<<>>, <<Check("string_not_empty")>>,
     <<Check("string_not_empty"), [Check("number_min") EXCEPT !.n = 2], Check("array_not_empty")>>}

\* a validator of the title of the head with the checks pushed in turn
TitleValidator(type_checks, value_checks) ==
    [Required(InParent(AsAttribute(GenericValidatorNew("title")), <<"head">>))
        EXCEPT !.type_checks = type_checks, !.value_checks = value_checks]

RuleOf(fn, g) == [fn |-> fn, g |-> g]

DocumentRules ==
    {RuleOf(fn, GenericValidatorNew(""))
        : fn \in {"ensure_required_tags", "validate_block_name_uniqueness", "validate_title"}}

ScriptRule == RuleOf("validate_script", GenericValidatorNew(""))

HeadRules ==
    {RuleOf("head::validate_title", HeadTitle), RuleOf("head::validate_lang", HeadLang),
     RuleOf("head::validate_charset", HeadCharset)}

Rules ==
    DocumentRules \cup HeadRules \cup {RuleOf("link::validate_link", LinkAs)}
    \cup {RuleOf("validate", TitleValidator(t, c))
            : t \in SeqsUpTo(TypeCheckSet, MaxChecks) \ {<<>>}, c \in ValueCheckSeqs}

\* .name(attrs){ body }
Blk(name, attrs, body) ==
    Open(name) \o <<Tok("ParenOpen")>> \o attrs \o <<Tok("ParenClose"), Tok("BraceOpen")>>
    \o body \o <<Tok("BraceClose")>>

TitleAttr == Attr("title", StrTok(SDocumentation))
TitleBlk == Blk("title", <<>>, <<>>)

\* heads in which `title` is absent, an attribute, one or two blocks, or both
PlainHeads ==
    {Blk("head", <<>>, <<>>),
     Blk("head", TitleAttr, <<>>),
     Blk("head", <<>>, TitleBlk),
     Blk("head", TitleAttr, TitleBlk)}

\* heads with an empty title, two title blocks, a title block that has a child, and
\* a title block or a title attribute one level further down
DeepHeads ==
    {Blk("head", Attr("title", StrTok(<<>>)), <<>>),
     Blk("head", <<>>, TitleBlk \o TitleBlk),
     Blk("head", TitleAttr, TitleBlk \o TitleBlk),
     Blk("head", <<>>, Blk("title", <<>>, Blk("div", <<>>, <<>>))),
     Blk("head", <<>>, Blk("div", <<>>, TitleBlk)),
     Blk("head", <<>>, Blk("div", Attr("title", StrTok(<<>>)), <<>>))}

\* documents of one head, of two heads, and with `title` at the top level
ScopeSources ==
    PlainHeads \cup DeepHeads
    \cup {h1 \o h2 : h1 \in PlainHeads, h2 \in PlainHeads}
    \cup {TitleBlk, Blk("body", TitleAttr, <<>>), Blk("body", TitleAttr, <<>>) \o TitleBlk}

\* the validators of `title` a rule function can build: every target kind, with or
\* without required(), disallowed(), block_no_children() and in_parent(["head"])
ScopeRules ==
    {RuleOf("validate",
            [StringNotEmpty(MustBeString(GenericValidatorNew("title")))
                EXCEPT !.target_type = t, !.required = r, !.disallowed = d,
                       !.no_children = n, !.parent = q])
        : t \in {"Attribute", "Block", "Either"}, r \in BOOLEAN, d \in BOOLEAN,
          n \in BOOLEAN,
          q \in {[some |-> FALSE, names |-> <<>>], [some |-> TRUE, names |-> <<"head">>]}}

\* .head(.title="Home", .lang="en"){ .div(){ } }
ListedHead ==
    Blk("head", Attr("title", StrTok(SHome)) \o <<Tok("Comma")>> \o Attr("lang", StrTok(SEn)),
        Blk("div", <<>>, <<>>))

\* the places of the tokens between the parentheses of ListedHead
ListPlaces == 4..12

\* ListedHead with one token of its attribute list left out
MalformedLists ==
    {SubSeq(ListedHead, 1, i - 1) \o SubSeq(ListedHead, i + 1, Len(ListedHead))
        : i \in ListPlaces}

\* what a link is given for rel: nothing, four strings, a number
RelAttrs ==
    {<<>>, Rel(SPreload), Rel(SStylesheet), Rel(SExpect), Rel(SHome), Attr("rel", NumTok(1))}

\* a head with one link: a rel or none, with and without blocking = "render"
BlockingSources ==
    {HeadDoc(<<>>, Link(r, <<>>)) : r \in RelAttrs}
    \cup {HeadDoc(<<>>, Link(Attr("blocking", StrTok(SRender)), <<>>))}
    \cup {HeadDoc(<<>>, Link(r \o <<Tok("Comma")>> \o Attr("blocking", StrTok(SRender)), <<>>))
             : r \in RelAttrs \ {<<>>}}

\* the script blocks a head is given
Scripts ==
    {Blk("script", Attr("src", StrTok(SJsFile)), <<>>),
     Blk("script", Attr("src", StrTok(SHttpJs)), <<>>),
     Blk("script", Attr("async", NumTok(1)), <<>>),
     Blk("script", Attr("type", StrTok(SText)), <<>>),
     Blk("script", Attr("src", StrTok(SHttpsJs)) \o <<Tok("Comma")>>
                   \o Attr("async", BoolTok(TRUE)) \o <<Tok("Comma")>>
                   \o Attr("defer", BoolTok(TRUE)), <<>>),
     Blk("script", Attr("src", StrTok(SHttpsJs)), <<StrTok(SText)>>)}

\* a head with no script, with one, with two
ScriptSources ==
    {HeadDoc(<<>>, <<>>)} \cup {HeadDoc(<<>>, a) : a \in Scripts}
    \cup {HeadDoc(<<>>, a \o b) : a \in Scripts, b \in Scripts}

ruleRun == UNCHANGED <<files, pending, pool, wk, ctx_lock, ctx_poisoned, log, rendered, written>>

RulesParseOutcome(r) ==
    /\ rdoc' = r.doc
    /\ bag' = r.p.bag
    /\ interner' = r.p.tab
    /\ rpc' = IF r.p.panic THEN "panicked" ELSE "parsed"

\* `Parser::new(tokens).parse()`
RulesParse ==
    /\ rpc = "source"
    /\ RulesParseOutcome(ParseLoop(rsrc, [cur |-> 0, panic |-> FALSE, bag |-> bag,
                                          tab |-> interner], <<>>))
    /\ UNCHANGED <<rsrc, rinfo, rule>>
    /\ ruleRun /\ tableIdle /\ findIdle

RulesCollectOutcome(info) ==
    /\ rinfo' = info
    /\ rpc' = IF info.panic THEN "panicked" ELSE "indexed"

\* `doc.collect_info(info)` on a document that parsed without an error
RulesCollect ==
    /\ rpc = "parsed"
    /\ ~HasErrors(bag)
    /\ RulesCollectOutcome(CollectInfo(rdoc))
    /\ UNCHANGED <<rsrc, rdoc, rule, bag, interner>>
    /\ ruleRun /\ tableIdle /\ findIdle

RulesApplyOutcome(v) ==
    /\ bag' = v.bag
    /\ interner' = v.tab
    /\ rpc' = IF v.panic THEN "panicked" ELSE "validated"

\* the rule function is called: `rule(doc, info)`
RulesApply ==
    /\ rpc = "indexed"
    /\ RulesApplyOutcome(ApplyRule([bag |-> bag, tab |-> interner, panic |-> FALSE],
                                   rule, rdoc, rinfo))
    /\ UNCHANGED <<rsrc, rdoc, rinfo, rule>>
    /\ ruleRun /\ tableIdle /\ findIdle

InitRules ==
    /\ BuildInit(<<>>, {})
    /\ TableIdleInit
    /\ FindIdleInit
    /\ \/ rsrc \in RuleSources /\ rule \in Rules
       \/ rsrc \in ScopeSources /\ rule \in ScopeRules
       \/ rsrc \in BlockingSources /\ rule = RuleOf("link::blocking_attribute", LinkBlocking)
       \/ rsrc \in ScriptSources /\ rule = ScriptRule
       \/ rsrc \in MalformedLists \cup {ListedHead}
          /\ rule = RuleOf("ensure_required_tags", GenericValidatorNew(""))
    /\ rdoc = <<>>
    /\ rinfo = InfoNew
    /\ rpc = "source"

NextRules == RulesParse \/ RulesCollect \/ RulesApply

SpecRules == InitRules /\ [][NextRules]_vars

-----------------------------------------------------------------------------
(* Properties of Parser::parse and Context::process_file, under Spec *)

\* the positions of the history at which one of ops was executed on file f
Ops(f, ops) == {k \in DOMAIN log : log[k].file = f /\ log[k].op \in ops}

ParseOps == {"parse_block", "parse_panic"}
LaterPhases == {"clear_errors", "collect_info", "validate", "to_html_ir", "generate",
                "write_to_file"}
HtmlPhases == {"to_html_ir", "generate", "write_to_file"}

\* a token sequence that stops right after a dot: no block and no attribute is a lone dot
EndsInDot(toks) == toks # <<>> /\ toks[Len(toks)].kind = "Dot"

\* the parse of file f is over: it was aborted, or process_file went on to print
ParseOver(f) == Ops(f, {"parse_panic", "print"}) # {}

\* C1: every parse comes to an end, and once the parse of a malformed token sequence
\* (here: one that ends in a lone dot) is over, the bag holds at least one error
C1_MalformedLeavesError ==
    \A f \in DOMAIN files :
        (files[f].ext = "mr" /\ EndsInDot(files[f].tokens) /\ ParseOver(f))
            => \E k \in Ops(f, ParseOps) : log[k].errors > 0

\* C2: the parser never indexes the token list at or past its end, so no parse is
\* aborted by the panic of `self.tokens[self.current]`
C2_NeverReadsPastEnd == \A k \in DOMAIN log : log[k].op # "parse_panic"

\* the document of w holds exactly the blocks parsed up to the first block with an
\* error, and nothing was parsed after that block
AtMostK(w) ==
    \A k \in Ops(wk[w].file, {"parse_block"}) :
        log[k].errors > 0 =>
            /\ \A j \in Ops(wk[w].file, ParseOps) : j <= k
            /\ Len(wk[w].doc) = Cardinality(Ops(wk[w].file, {"parse_block"}))
            /\ wk[w].pc # "parse"

\* C3: if block k is the first top-level block whose parsing records an error, the
\* document holds at most k blocks: the loop stops right after block k, nothing later
\* is parsed, and a step never removes or changes a block already in the document
C3_FailFast ==
    /\ [](\A w \in pool : AtMostK(w))
    /\ [][\A w \in pool : wk'[w].file = wk[w].file => IsPrefix(wk[w].doc, wk'[w].doc)]_vars

C3_Witness ==
    \E w \in pool :
        /\ wk[w].pc = "parsed"
        /\ Len(wk[w].doc) = 2
        /\ ErrorReports(bag) # {}
        /\ wk[w].cur < Len(files[wk[w].file].tokens)

\* C4: once parsing has recorded an error for a file, clear_errors, collect_info,
\* validate and the HTML generation never run for it, and when parse has returned
\* with the error, all process_file does next is print the diagnostics and return
C4_ParseErrorsGate ==
    \A k \in DOMAIN log :
        (log[k].op \in ParseOps /\ log[k].errors > 0) =>
            /\ \A j \in Ops(log[k].file, LaterPhases) : j < k
            /\ log[k].op = "parse_block" =>
                   \A j \in Ops(log[k].file, ParseOps \cup {"print", "return"}) :
                       j > k => \/ /\ j = k + 1
                                   /\ log[j].op = "print"
                                   /\ \E r \in rendered : /\ r.printer = log[k].file
                                                          /\ r.report.kind = "Error"
                                \/ /\ j = k + 2
                                   /\ log[j].op = "return"

C4_Witness ==
    \E k \in DOMAIN log :
        /\ log[k].op = "return"
        /\ log[k - 1].op = "print"
        /\ log[k - 2].op = "parse_block" /\ log[k - 2].errors > 0

\* C5: HTML is produced for a file only if validation recorded no error: to_html_ir,
\* generate and write_to_file never follow a validation that left an error in the bag
C5_ValidationErrorsGate ==
    \A k \in DOMAIN log :
        (log[k].op = "validate" /\ log[k].errors > 0) =>
            Ops(log[k].file, HtmlPhases) = {}

-----------------------------------------------------------------------------
(* Properties of the identifier table, under SpecTable *)

\* C7: interning a text again returns the handle of the first time, two different
\* texts never share a handle, and every handle returned so far resolves to its text
\* whatever was interned after it
C7_InternRoundTrip ==
    /\ \A i, j \in DOMAIN returned :
           (returned[i].text = returned[j].text) <=> (returned[i].key = returned[j].key)
    /\ \A i \in DOMAIN returned :
           /\ KnownKey(interner, returned[i].key)
           /\ RodeoResolve(interner, returned[i].key) = returned[i].text

C7_Witness ==
    \E i, j, k \in DOMAIN returned :
        /\ i < j /\ j < k
        /\ returned[i].text # returned[j].text
        /\ returned[k].text = returned[i].text

\* C8: whatever the interleaving, two threads interning equal text hold the same
\* handle, and every resolve returned the text that each get_or_intern returning
\* that handle was given
C8_ConcurrentIntern ==
    /\ \A i, j \in DOMAIN returned :
           (returned[i].thread # returned[j].thread /\ returned[i].text = returned[j].text)
               => returned[i].key = returned[j].key
    /\ \A k \in DOMAIN resolved :
           /\ \E i \in DOMAIN returned : returned[i].key = resolved[k].key
           /\ \A i \in DOMAIN returned :
                  returned[i].key = resolved[k].key => resolved[k].text = returned[i].text

C8_Witness ==
    /\ \E i, j \in DOMAIN returned :
           /\ returned[i].thread # returned[j].thread
           /\ returned[i].text = returned[j].text
    /\ \E t, u \in DOMAIN tpc :
           /\ tpc[t] = "resolve_locked"
           /\ tpc[u] \in {"intern", "resolve"}

-----------------------------------------------------------------------------
(* Properties of the parallel build, under SpecBuild *)

BagOps == {"init", "parse_block", "parse_panic", "print", "clear_errors", "validate",
           "validate_panic"}

\* C9: the bag operations of one file are contiguous in the history (none of another
\* file falls between two of them), and every report was rendered against the file
\* and the source text of the file that produced it
C9_BagOpsNeverInterleave ==
    /\ \A i, k \in DOMAIN log :
           (i < k /\ log[i].file = log[k].file /\ log[i].op \in BagOps /\ log[k].op \in BagOps)
               => \A j \in i..k : log[j].op \in BagOps => log[j].file = log[i].file
    /\ \A r \in rendered :
           /\ r.report.file = r.printer
           /\ r.bag_file = r.printer
           /\ r.source = r.printer

C9_Witness ==
    \E w1, w2 \in pool :
        /\ w1 # w2
        /\ wk[w1].file # NoFile /\ wk[w2].file # NoFile
        /\ \E r \in rendered : r.printer = wk[w1].file
        /\ \E r \in rendered : r.printer = wk[w2].file

-----------------------------------------------------------------------------
(* Properties of find_in_parent, under SpecFind *)

RECURSIVE ChainFrom(_, _, _)
\* pos leads from nodes through blocks named path[1], path[2], ... in turn
ChainFrom(nodes, pos, path) ==
    /\ pos[1] \in DOMAIN nodes
    /\ nodes[pos[1]].type = "Block"
    /\ nodes[pos[1]].block.name = path[1]
    /\ \/ Len(pos) = 1
       \/ ChainFrom(nodes[pos[1]].block.children, Tail(pos), Tail(path))

\* the positions a path of direct children can lead to
Chains(doc, path) ==
    IF path = <<>> THEN {}
    ELSE {pos \in [1..Len(path) -> 1..MaxNodes] :
            ChainFrom([i \in DOMAIN doc |-> BlockNode(doc[i])], pos, path)}

\* C10: find_in_parent returns, each once, exactly the blocks reached from a top-level
\* block named path[1] through direct children named path[2], ..., and nothing for
\* the empty path
C10_DirectChildrenOnly ==
    fresult.called =>
        /\ Range(fresult.blocks) = Chains(fdoc, fpath)
        /\ Cardinality(Range(fresult.blocks)) = Len(fresult.blocks)
        /\ fpath = <<>> => fresult.blocks = <<>>

\* the path [A, B] on a document with A > B (returned) and A > X > B (not returned)
C10_Witness ==
    /\ fresult.called
    /\ Len(fpath) = 2
    /\ fresult.blocks # <<>>
    /\ \E pos \in [1..3 -> 1..MaxNodes], x \in FindNames :
           /\ x # fpath[2]
           /\ ChainFrom([i \in DOMAIN fdoc |-> BlockNode(fdoc[i])], pos, <<fpath[1], x, fpath[2]>>)
           /\ pos \notin Range(fresult.blocks)

-----------------------------------------------------------------------------
(* Properties of the document rules, under Spec *)

RECURSIVE PreOrderNodes(_, _)
\* the blocks among nodes[i..] and below them, each before its descendants
PreOrderNodes(nodes, i) ==
    IF i > Len(nodes) THEN <<>>
    ELSE (IF nodes[i].type = "Block"
          THEN <<nodes[i].block>> \o PreOrderNodes(nodes[i].block.children, 1)
          ELSE <<>>)
         \o PreOrderNodes(nodes, i + 1)

\* every block of the document, in document order
PreOrder(doc) == PreOrderNodes([i \in DOMAIN doc |-> BlockNode(doc[i])], 1)

\* the blocks of the document with the name, in document order
Occurrences(doc, key) == SelectSeq(PreOrder(doc), LAMBDA b : b.name = key)

\* the labels of the duplicate-name reports the bag holds for the name, in order
DuplicateLabels(b, text) ==
    Let(SelectSeq(b.reports, LAMBDA r : r.message = <<"Duplicate block name", text, "found">>),
        LAMBDA rs : [i \in DOMAIN rs |-> rs[i].labels])

\* C11: after validation a name that occurs n times in the document has exactly n-1
\* duplicate-name reports, one per later occurrence and in their order, each labelling
\* that occurrence's span "redefined here" and the first occurrence's span "first
\* defined here"; so two top-level blocks named head yield exactly one diagnostic
C11_DuplicateNames ==
    \A w \in pool :
        wk[w].pc = "validated" =>
            \A key \in {b.name : b \in Range(PreOrder(wk[w].doc))} :
                Let(Occurrences(wk[w].doc, key), LAMBDA occ :
                    DuplicateLabels(bag, RodeoResolve(interner, key))
                        = [i \in 1..(Len(occ) - 1) |->
                              <<Label(occ[i + 1].span, "redefined here"),
                                Label(occ[1].span, "first defined here")>>])

\* two top-level blocks named head, and the one report that names both spans
C11_Witness ==
    \E w \in pool :
        /\ wk[w].pc = "validated"
        /\ Len(wk[w].doc) = 2
        /\ \A i \in 1..2 : RodeoResolve(interner, wk[w].doc[i].name) = "head"
        /\ DuplicateLabels(bag, "head")
               = << <<Label(wk[w].doc[2].span, "redefined here"),
                      Label(wk[w].doc[1].span, "first defined here")>> >>

-----------------------------------------------------------------------------
(* Properties of the rule functions, under SpecRules *)

\* the handle of a text in the identifier table (NoName when it was never interned)
KeyOf(text) == IndexOf(interner, text) - 1

\* the value of the attribute of the document's first block with the name, if any
AttributeOfHead(name) == FoundAttribute(rdoc[1], KeyOf(name))

\* a type check turns the value down
FailsType(c, value) ==
    \/ value.kind # Expected(c)
    \/ c.inner # "None" /\ \E i \in DOMAIN value.items : value.items[i].kind # c.inner

\* how the message of a failed type check begins
MustBe ==
    [must_be_string |-> "Value must be a string", must_be_number |-> "Value must be a number",
     must_be_boolean |-> "Value must be a boolean", must_be_array |-> "Value must be an array"]

\* the report of the type check c on a value it turns down
IsTypeReport(r, c, value) ==
    /\ r.kind = "Error"
    /\ r.message[1] = IF value.kind # Expected(c) THEN MustBe[c.check]
                      ELSE "Array item must be of type"
    /\ r.labels[1].span = value.span

\* C12: when the value of the attribute a validator is about fails one of its type
\* checks, the run of the validator leaves exactly one diagnostic, the one of the first
\* type check that fails: no later type check and none of the value checks reports
C12_TypeChecksShortCircuit ==
    (/\ rpc = "validated"
     /\ rule.g.name = "title"
     /\ AttributeOfHead("title").some)
        => \A i \in DOMAIN rule.g.type_checks :
               (/\ FailsType(rule.g.type_checks[i], AttributeOfHead("title").value)
                /\ \A j \in 1..(i - 1) :
                       ~FailsType(rule.g.type_checks[j], AttributeOfHead("title").value))
                   => /\ Len(bag.reports) = 1
                      /\ IsTypeReport(bag.reports[1], rule.g.type_checks[i],
                                      AttributeOfHead("title").value)

\* the empty string under must_be_number, then must_be_string, then string_not_empty:
\* one report, though the later type check passes and the value check would report
C12_Witness ==
    /\ rpc = "validated"
    /\ rule.fn = "validate"
    /\ Len(rule.g.type_checks) = 2
    /\ rule.g.type_checks[1].check = "must_be_number"
    /\ rule.g.type_checks[2].check = "must_be_string"
    /\ rule.g.value_checks # <<>>
    /\ AttributeOfHead("title").some
    /\ AttributeOfHead("title").value = VString(<<>>)
    /\ Len(bag.reports) = 1
    /\ bag.reports[1].message = <<"Value must be a number">>

\* the reports that an attribute `as` is missing in the block
MissingAs(block) ==
    {i \in DOMAIN bag.reports :
        /\ bag.reports[i].kind = "Error"
        /\ bag.reports[i].message = <<"Missing required", "attribute", "as">>
        /\ bag.reports[i].labels[1].span = block.span}

\* C13: after the `as` validator of validate_link has run, a link under head with
\* rel = "preload" and no `as` has exactly one missing-required-attribute error, and a
\* link with any other rel, or with an `as`, has none
C13_AsRequiredIfPreload ==
    (rpc = "validated" /\ rule.fn = "link::validate_link")
        => \A pos \in Range(FindInParent(rdoc, <<KeyOf("head"), KeyOf("link")>>)) :
               Cardinality(MissingAs(BlockAt(rdoc, pos)))
                   = IF /\ RelIsPreload(FoundAttribute(BlockAt(rdoc, pos), KeyOf("rel")))
                        /\ ~FoundAttribute(BlockAt(rdoc, pos), KeyOf("as")).some
                        /\ FindAllChildBlocks(BlockAt(rdoc, pos), KeyOf("as")) = <<>>
                     THEN 1 ELSE 0

\* C14: the source .head(.title="Documentation Home Page", .lang="en",
\* .charset="utf-8"){ }.body{ } parses without a diagnostic into two top-level blocks,
\* a head with the three attributes and a body; no rule of the document and no rule
\* of the head reports an error on it, and has_errors is false after parsing and after
\* each of the rules
C14_PlainDocument ==
    rsrc = DocPlain =>
        /\ rpc # "panicked"
        /\ rpc \in {"parsed", "indexed", "validated"} =>
               /\ Len(rdoc) = 2
               /\ RodeoResolve(interner, rdoc[1].name) = "head"
               /\ RodeoResolve(interner, rdoc[2].name) = "body"
               /\ [i \in DOMAIN rdoc[1].attributes |->
                      RodeoResolve(interner, rdoc[1].attributes[i].key)]
                      = <<"title", "lang", "charset">>
               /\ AttributeOfHead("title").value.str = SDocumentation
               /\ AttributeOfHead("lang").value.str = SEn
               /\ AttributeOfHead("charset").value.str = SUtf8
               /\ rdoc[1].children = <<>>
               /\ rdoc[2].attributes = <<>> /\ rdoc[2].children = <<>>
        /\ rpc \in {"parsed", "indexed"} => bag.reports = <<>> /\ ~HasErrors(bag)
        /\ (rpc = "validated" /\ rule \in DocumentRules \cup HeadRules)
               => ErrorReports(bag) = {} /\ ~HasErrors(bag)

\* the rule of the head's lang has run on the document
C14_Witness ==
    /\ rsrc = DocPlain
    /\ rpc = "validated"
    /\ rule.fn = "head::validate_lang"
    /\ bag.reports = <<>>

-----------------------------------------------------------------------------
(* Properties of the document rules and of the parser, under Spec *)

\* the tags among head and body that no block of the document is named
Lacking(doc) ==
    SelectSeq(RequiredTags,
              LAMBDA tag : \A b \in Range(PreOrder(doc)) : RodeoResolve(interner, b.name) # tag)

\* the missing-tags reports the bag holds
MissingTagsReports(b) ==
    SelectSeq(b.reports, LAMBDA r : r.message[1] = "Missing required tags:")

\* C15: after validation the bag holds one missing-tags error when the document lacks
\* head or body, its message listing exactly the lacking tags, and none when the
\* document has both
C15_RequiredTags ==
    \A w \in pool :
        wk[w].pc = "validated" =>
            Let(Lacking(wk[w].doc), LAMBDA lacking :
                IF lacking = <<>> THEN MissingTagsReports(bag) = <<>>
                ELSE /\ Len(MissingTagsReports(bag)) = 1
                     /\ MissingTagsReports(bag)[1].kind = "Error"
                     /\ MissingTagsReports(bag)[1].message
                            = <<"Missing required tags:">> \o lacking)

\* a document made of a head alone: "Missing required tags: body"
C15_Witness ==
    \E w \in pool :
        /\ wk[w].pc = "validated"
        /\ Len(wk[w].doc) = 1
        /\ RodeoResolve(interner, wk[w].doc[1].name) = "head"
        /\ \E i \in DOMAIN bag.reports :
               bag.reports[i].message = <<"Missing required tags:", "body">>

\* C16: the bare attribute of .head(.title="Documentation Home Page", .hidden){ }
\* .body{ } is accepted without a diagnostic and stored with the value Boolean(true)
C16_BareAttribute ==
    \A w \in pool :
        (wk[w].pc = "parsed" /\ files[wk[w].file].tokens = DocBare)
            => /\ bag.reports = <<>>
               /\ \E i \in DOMAIN wk[w].doc[1].attributes :
                      /\ RodeoResolve(interner, wk[w].doc[1].attributes[i].key) = "hidden"
                      /\ wk[w].doc[1].attributes[i].value = ValueNewDefault

RECURSIVE AttributeCount(_, _)
\* the number of attributes the blocks hold
AttributeCount(blocks, i) ==
    IF i > Len(blocks) THEN 0 ELSE Len(blocks[i].attributes) + AttributeCount(blocks, i + 1)

\* C17: every attribute written in the source is kept: a source parsed without a
\* diagnostic has as many attributes in its blocks as it has `=` signs, a key written
\* twice being present twice
C17_AttributesKept ==
    \A w \in pool :
        (wk[w].pc = "parsed" /\ bag.reports = <<>>)
            => AttributeCount(PreOrder(wk[w].doc), 1)
                   = Cardinality({i \in DOMAIN files[wk[w].file].tokens :
                                     files[wk[w].file].tokens[i].kind = "Equals"})

RECURSIVE BlockTotal(_, _)
\* the number of blocks among nodes[i..] and below them
BlockTotal(nodes, i) ==
    IF i > Len(nodes) THEN 0
    ELSE (IF nodes[i].type = "Block" THEN 1 + BlockTotal(nodes[i].block.children, 1) ELSE 0)
         + BlockTotal(nodes, i + 1)

RECURSIVE ChildIds(_, _, _)
\* the pre-order ids of the blocks among nodes[i..], the first of them getting id
ChildIds(nodes, i, id) ==
    IF i > Len(nodes) THEN <<>>
    ELSE IF nodes[i].type # "Block" THEN ChildIds(nodes, i + 1, id)
    ELSE <<id>> \o ChildIds(nodes, i + 1, id + 1 + BlockTotal(nodes[i].block.children, 1))

RECURSIVE TreeInfo(_, _, _, _, _)
\* what the table of BlockInfo is to hold for the blocks among nodes[i..] and below
TreeInfo(nodes, i, id, parent, depth) ==
    IF i > Len(nodes) THEN <<>>
    ELSE IF nodes[i].type # "Block" THEN TreeInfo(nodes, i + 1, id, parent, depth)
    ELSE <<[id |-> id, name |-> nodes[i].block.name, span |-> nodes[i].block.span,
            depth |-> depth, parent |-> parent,
            children |-> ChildIds(nodes[i].block.children, 1, id + 1)]>>
         \o TreeInfo(nodes[i].block.children, 1, id + 1, id, depth + 1)
         \o TreeInfo(nodes, i + 1, id + 1 + BlockTotal(nodes[i].block.children, 1),
                     parent, depth)

\* C20: after collect_info the ids are 0..n-1 in pre-order, a top-level block has depth
\* 0 and no parent, a nested block has its enclosing block as parent and that block's
\* depth plus one, and the children of a block are its direct child blocks in order
C20_BlockInfoTree ==
    \A w \in pool :
        wk[w].pc = "validate" =>
            wk[w].info.blocks
                = TreeInfo([i \in DOMAIN wk[w].doc |-> BlockNode(wk[w].doc[i])], 1, 0, NoParent, 0)

-----------------------------------------------------------------------------
(* Properties of the bag and of the build across files, under SpecBuild *)

\* C18: ReportsBag::init leaves a bag with no report, the flag down and the file and
\* source of the new file, whatever it held; so a file is turned away only for errors
\* of its own parse, and no report is rendered for a file that is not its own
C18_InitReplacesBag ==
    /\ \A k \in DOMAIN log : log[k].op = "init" => ~log[k].err /\ log[k].errors = 0
    /\ \A w \in pool :
           (wk[w].pc = "parse" /\ wk[w].doc = <<>>) => bag = BagNew(wk[w].file, wk[w].file)
    /\ \A k \in DOMAIN log :
           log[k].op = "return" =>
               \E j \in Ops(log[k].file, ParseOps) : j < k /\ log[j].errors > 0
    /\ \A r \in rendered : r.report.file = r.printer

\* a file is compiled and written right after a file that left the flag up
C18_Witness ==
    \E k \in DOMAIN log :
        /\ k > 1
        /\ log[k].op = "init"
        /\ log[k - 1].err /\ log[k - 1].errors > 0
        /\ log[k - 1].file # log[k].file
        /\ log[k].file \in written

PanicOps == {"parse_panic", "index_panic", "validate_panic", "lock_panic"}
ReturnOps == {"copy", "return", "write_to_file"}

\* the parallel loop has nothing left to do
BuildOver == pending = {} /\ \A w \in pool : wk[w].pc = "idle"

-----------------------------------------------------------------------------
(* Properties of GenericValidator::validate, under SpecRules *)

\* what a scope holds for the name: the attribute, the blocks, the span of the scope
ScopeOf(parent, key) ==
    [attr |-> FoundAttribute(parent, key), blocks |-> FindAllChildBlocks(parent, key),
     span |-> parent.span]

\* the blocks the ancestor path of the rule leads to
RuleParents == FindInParent(rdoc, [j \in DOMAIN rule.g.parent.names |-> KeyOf(rule.g.parent.names[j])])

\* the scopes the rule resolves to: the blocks its ancestor path leads to, or the
\* document root
RuleScopes ==
    IF rule.g.parent.some
    THEN [i \in DOMAIN RuleParents |-> ScopeOf(BlockAt(rdoc, RuleParents[i]), KeyOf(rule.g.name))]
    ELSE <<[attr |-> RootAttribute(rdoc, KeyOf(rule.g.name), 1,
                                   [some |-> FALSE, value |-> VBoolean(0)]),
            blocks |-> RootBlocks(rdoc, KeyOf(rule.g.name), 1), span |-> DefaultSpan]>>

\* the scopes in which the name is both an attribute and a block
BothScopes == {i \in DOMAIN RuleScopes : RuleScopes[i].attr.some /\ RuleScopes[i].blocks # <<>>}

\* the error reports of the bag with the text after the name and the label spans
ReportsOf(text, spans) ==
    {k \in DOMAIN bag.reports :
        /\ bag.reports[k].kind = "Error"
        /\ bag.reports[k].message = <<rule.g.name, text>>
        /\ [j \in DOMAIN bag.reports[k].labels |-> bag.reports[k].labels[j].span] = spans}

\* the error reports of the bag with the text after the name
ReportsSaying(text) ==
    {k \in DOMAIN bag.reports :
        bag.reports[k].kind = "Error" /\ bag.reports[k].message = <<rule.g.name, text>>}

DefinedAsBoth(s, b) ==
    ReportsOf("defined as both attribute and block", <<s.attr.value.span, b.span>>)

\* a GenericValidator has run on the document
Validated == rpc = "validated" /\ rule.fn = "validate"

\* C21 as stated: whatever the target kind of the rule, every scope in which the name
\* is both an attribute and a block gets a defined-as-both error that labels the
\* attribute and the block
C21_DefinedAsBothAnyKind ==
    Validated =>
        \A i \in BothScopes : \A j \in DOMAIN RuleScopes[i].blocks :
            DefinedAsBoth(RuleScopes[i], RuleScopes[i].blocks[j]) # {}

\* C21, amended: in a scope in which the name is both an attribute and a block, a rule
\* of target kind Either reports one defined-as-both error for each block, labelled at
\* the attribute and at the block; a rule of target kind Block reports no such error
\* but one should-be-a-block error for the attribute of each scope that has one; a rule
\* of target kind Attribute reports no such error but one should-be-an-attribute error
\* at each block
C21_DefinedAsBoth ==
    Validated =>
        /\ rule.g.target_type = "Either" =>
               \A i \in BothScopes : \A j \in DOMAIN RuleScopes[i].blocks :
                   Cardinality(DefinedAsBoth(RuleScopes[i], RuleScopes[i].blocks[j])) = 1
        /\ rule.g.target_type = "Block" =>
               /\ ReportsSaying("defined as both attribute and block") = {}
               /\ Cardinality(ReportsSaying("should be a block, not an attribute"))
                      = Cardinality({i \in DOMAIN RuleScopes : RuleScopes[i].attr.some})
        /\ rule.g.target_type = "Attribute" =>
               /\ ReportsSaying("defined as both attribute and block") = {}
               /\ \A i \in BothScopes : \A j \in DOMAIN RuleScopes[i].blocks :
                      Cardinality(ReportsOf("should be an attribute, not a block",
                                            <<RuleScopes[i].blocks[j].span>>)) = 1

\* a rule of target kind Either has run on a head with a title attribute and two title
\* blocks, and the bag holds the two defined-as-both errors
C21_Witness ==
    /\ Validated
    /\ rule.g.target_type = "Either"
    /\ rule.g.parent.some
    /\ \E i \in BothScopes : Len(RuleScopes[i].blocks) = 2
    /\ Cardinality(ReportsSaying("defined as both attribute and block")) = 2

\* a GenericValidator has run on the document, built by a rule function or by hand
RanGeneric == rpc = "validated" /\ rule \notin DocumentRules \cup {ScriptRule}

\* the scopes in which the name is neither an attribute nor a block
AbsentScopes == {i \in DOMAIN RuleScopes : ~RuleScopes[i].attr.some /\ RuleScopes[i].blocks = <<>>}

\* the reports of the bag with a label at the span
ReportsAt(span) ==
    {k \in DOMAIN bag.reports :
        \E j \in DOMAIN bag.reports[k].labels : bag.reports[k].labels[j].span = span}

IsMissingReport(r, span) ==
    /\ r.kind = "Error"
    /\ r.message = <<"Missing required", ExpectedType(rule.g), rule.g.name>>
    /\ Len(r.labels) = 1
    /\ r.labels[1].span = span

ShouldNotBeUsed(b) == ReportsOf("should not be used", <<b.span>>)

\* C23: when a rule marked disallowed has run, every block of its name found in a
\* scope it resolves to has a should-not-be-used error, whatever the target kind of the
\* rule, whether or not the scope also has an attribute of the name, and whatever the
\* other flags of the rule
C23_DisallowedBlocks ==
    (RanGeneric /\ rule.g.disallowed) =>
        \A i \in DOMAIN RuleScopes : \A j \in DOMAIN RuleScopes[i].blocks :
            ShouldNotBeUsed(RuleScopes[i].blocks[j]) # {}

\* the values of the attributes with the rule's name on the blocks of the document, at
\* any depth
AttributesAnywhere ==
    {FoundAttribute(b, KeyOf(rule.g.name)).value
        : b \in {c \in Range(PreOrder(rdoc)) : GetAttribute(c, KeyOf(rule.g.name)) # 0}}

\* the blocks of the document with the rule's name, at any depth
BlocksAnywhere == Range(Occurrences(rdoc, KeyOf(rule.g.name)))

\* C24: a rule without an ancestor path finds its name at any position of the document.
\* Wherever the name stands, as a block at any depth or as an attribute of a block at
\* any depth, a required rule does not report it missing; where it stands as blocks
\* only, a disallowed rule for blocks reports each of them; where it stands as
\* attributes only, the not-empty check of a rule for attributes reports an empty value
C24_FoundAtAnyPosition ==
    (RanGeneric /\ ~rule.g.parent.some) =>
        /\ (AttributesAnywhere # {} \/ BlocksAnywhere # {})
               => \A k \in DOMAIN bag.reports : bag.reports[k].message[1] # "Missing required"
        /\ (AttributesAnywhere = {} /\ rule.g.disallowed /\ rule.g.target_type # "Attribute")
               => \A b \in BlocksAnywhere : ShouldNotBeUsed(b) # {}
        /\ (BlocksAnywhere = {} /\ rule.g.target_type # "Block"
                /\ VString(<<>>) \in AttributesAnywhere)
               => \E k \in DOMAIN bag.reports :
                      bag.reports[k].message = <<"String cannot be empty">>

-----------------------------------------------------------------------------
(* Properties of the document rules on nested blocks, under Spec *)

\* C25: the duplicate-name rule is about the names of is_unique_tag only: after
\* validation no block name outside html, head, body and title has a duplicate-name
\* report, however often it occurs in the document
C25_UniqueTagsOnly ==
    \A w \in pool :
        wk[w].pc = "validated" =>
            \A key \in {b.name : b \in Range(PreOrder(wk[w].doc))} :
                ~IsUniqueTag(RodeoResolve(interner, key))
                    => DuplicateLabels(bag, RodeoResolve(interner, key)) = <<>>

-----------------------------------------------------------------------------
(* Properties of Parser::parse_block on a malformed attribute list, under SpecRules *)

\* the block has a child block with the name
ChildNamed(block, text) ==
    \E i \in DOMAIN block.children :
        /\ block.children[i].type = "Block"
        /\ RodeoResolve(interner, block.children[i].block.name) = text

\* C26: a source whose head has a malformed attribute list followed by a brace body
\* with a div in it parses with a diagnostic, and the head that parse_block returns has
\* the div among its children
C26_BodyAfterMalformedList ==
    (rsrc \in MalformedLists /\ rpc # "source") =>
        /\ rpc = "parsed"
        /\ ErrorReports(bag) # {}
        /\ Len(rdoc) >= 1
        /\ ChildNamed(rdoc[1], "div")

-----------------------------------------------------------------------------
(* Properties of GenericValidator::validate_attribute_value, under SpecRules *)

\* the scopes whose attribute is given to the value checks: the name is an attribute
\* only, the rule is not one for blocks, and the value passes every type check
CheckedScopes ==
    {i \in DOMAIN RuleScopes :
        /\ RuleScopes[i].attr.some /\ RuleScopes[i].blocks = <<>>
        /\ rule.g.target_type # "Block"
        /\ \A j \in DOMAIN rule.g.type_checks :
               ~FailsType(rule.g.type_checks[j], RuleScopes[i].attr.value)}

\* the value is one the value check reports
Fires(c, value) ==
    \/ value.kind = "String" /\ StringCheckFires(c, value.str)
    \/ value.kind = "Array" /\ c.check = "array_not_empty" /\ value.items = <<>>
    \/ value.kind = "Number" /\ c.check = "number_min" /\ value.num < c.n

\* the reports of the value check in the bag
ReportsOfCheck(c) ==
    {k \in DOMAIN bag.reports :
        /\ bag.reports[k].kind = ValueCheckKind(c)
        /\ bag.reports[k].message = ValueCheckMessage(c)}

\* C27: every value check of a rule is run exactly once on every attribute value that
\* passes all the type checks of the rule, whatever the value checks before it
\* reported: the bag holds one report of a value check for each such value the check
\* objects to, and none besides
C27_AllValueChecksRun ==
    RanGeneric =>
        \A j \in DOMAIN rule.g.value_checks :
            Cardinality(ReportsOfCheck(rule.g.value_checks[j]))
                = Cardinality({i \in CheckedScopes :
                                  Fires(rule.g.value_checks[j], RuleScopes[i].attr.value)})

\* the title rule of the head has run on an empty title: the not-empty error and the
\* minimum-length warning are both in the bag
C27_Witness ==
    /\ rpc = "validated"
    /\ rule.fn = "head::validate_title"
    /\ CheckedScopes = {1}
    /\ RuleScopes[1].attr.value = VString(<<>>)
    /\ Len(bag.reports) = 2
    /\ bag.reports[1].kind = "Error"
    /\ bag.reports[1].message = <<"String cannot be empty">>
    /\ bag.reports[2].kind = "Warning"
    /\ bag.reports[2].message = <<"String too short (minimum characters)", 10>>

-----------------------------------------------------------------------------
(* Properties of the conditions of validate_link, under SpecRules *)

\* the rel of the block is one of the strings
RelAmong(block, strings) ==
    /\ FoundAttribute(block, KeyOf("rel")).some
    /\ FoundAttribute(block, KeyOf("rel")).value.kind = "String"
    /\ FoundAttribute(block, KeyOf("rel")).value.str \in strings

\* the links under the head of the document
HeadLinks == {BlockAt(rdoc, pos) : pos \in Range(FindInParent(rdoc, <<KeyOf("head"), KeyOf("link")>>))}

\* C28: the condition given to valid_if for `blocking` under [head, link] holds of a
\* link exactly when its rel is the string preload or the string stylesheet; on every
\* other link (another rel, no rel, a rel that is no string) that has a blocking
\* attribute, the run of the rule leaves an error
C28_BlockingValidIf ==
    (rpc = "validated" /\ rule.fn = "link::blocking_attribute") =>
        \A link \in HeadLinks :
            /\ Evaluate(rule.g.valid_if, link, KeyOf("rel"))
                   <=> RelAmong(link, {SPreload, SStylesheet})
            /\ (FoundAttribute(link, KeyOf("blocking")).some
                    /\ ~RelAmong(link, {SPreload, SStylesheet}))
                   => ErrorReports(bag) # {}

-----------------------------------------------------------------------------
(* Properties of validate_script, under SpecRules *)

ScriptValidators == <<ScriptSrc, ScriptAsync, ScriptDefer, ScriptType>>

\* the script blocks under the head of the document
HeadScripts ==
    {BlockAt(rdoc, pos) : pos \in Range(FindInParent(rdoc, <<KeyOf("head"), KeyOf("script")>>))}

\* the messages a validator has for a value when it is run on it once: the one of the
\* type check that fails, or those of the value checks that object
MessagesFor(g, value) ==
    IF \E j \in DOMAIN g.type_checks : FailsType(g.type_checks[j], value)
    THEN {<<MustBe[g.type_checks[j].check]>> :
            j \in {n \in DOMAIN g.type_checks :
                      /\ FailsType(g.type_checks[n], value)
                      /\ \A l \in 1..(n - 1) : ~FailsType(g.type_checks[l], value)}}
    ELSE {ValueCheckMessage(c) : c \in {d \in Range(g.value_checks) : Fires(d, value)}}

\* the messages the four validators can give
ScriptMessages ==
    UNION {{<<MustBe[c.check]>> : c \in Range(ScriptValidators[i].type_checks)}
           \cup {ValueCheckMessage(c) : c \in Range(ScriptValidators[i].value_checks)}
              : i \in DOMAIN ScriptValidators}

\* the attributes of the scripts of the head that a validator has the message for
Offences(m) ==
    {<<i, b>> \in (DOMAIN ScriptValidators) \X HeadScripts :
        /\ FoundAttribute(b, KeyOf(ScriptValidators[i].name)).some
        /\ m \in MessagesFor(ScriptValidators[i],
                              FoundAttribute(b, KeyOf(ScriptValidators[i].name)).value)}

\* C29: after validate_script the bag holds each message of the validators of src,
\* async, defer and type once for every attribute of a script of the head that the
\* validator objects to, however many scripts the head has
C29_ScriptReportsOnce ==
    (rpc = "validated" /\ rule = ScriptRule) =>
        \A m \in ScriptMessages :
            Cardinality({k \in DOMAIN bag.reports : bag.reports[k].message = m})
                = Cardinality(Offences(m))

-----------------------------------------------------------------------------
(* Properties of impl Validate for Block and for MarstonDocument, under Spec   *)

\* the reports of the bag that a key is a duplicate attribute
DuplicateReports(text) ==
    {i \in DOMAIN bag.reports :
        bag.reports[i].message = <<"Duplicate attribute", text, "found">>}

\* C30: a document with a block, at the top or nested, that is written with the key
\* title twice is validated with one duplicate-attribute error for title
C30_DuplicatesAtAnyDepth ==
    \A w \in pool :
        (wk[w].pc = "validated" /\ files[wk[w].file].tokens \in {DocTwice, DocNested})
            => Cardinality(DuplicateReports("title")) = 1

====
